---- MODULE Spec2Model ----
(***************************************************************************)
(* Signal replay and outcome evaluation of quickcap-bot.                   *)
(*                                                                         *)
(* Numbers.  Prices and volumes are integers.  A timestamp is an integer   *)
(* number of milliseconds since the epoch, a whole number of seconds.      *)
(* A Python float that is a ratio of such integers is kept as the ratio:   *)
(* vwap is the pair (pv, vv) standing for pv / (vv + 1e-12), a return is a *)
(* pair [num, den], a score is an integer number of thousandths (the code  *)
(* rounds it to 3 decimals).  Comparisons are done by cross               *)
(* multiplication, so they are the comparisons of the exact values.        *)
(* Indexes are the 0-based indexes of the code; At(f, k) reads row k.      *)
(***************************************************************************)
EXTENDS Integers, Sequences, FiniteSets, Bags, TLC

\* ------------------------------------------------------------------ bounds

\* The longest run of free bars appended to the flat warm-up of a replay input.
MaxTail == 4
\* The longest such run on a series replayed with a Supabase client.
MaxSupaTail == 2
\* The longest run of free bars appended to the flat warm-up of a series the
\* feature rows are compared on.
MaxFeatTail == 6
\* The longest run of free spot/perp bar pairs appended to the flat warm-up of
\* the series the basis engine is applied to.
MaxBasisTail == 2
\* The longest series aligned against its own copy.
MaxAlignBars == 3
\* The longest bar series the outcome evaluator is run on.
MaxBarsOut == 3
\* The most rows of the signals table the outcome evaluator reads.
MaxSigs == 2
\* The most runs of the outcome evaluators, together, in one behaviour.
MaxRuns == 3
\* The runs of the outcomes job of one behaviour.
MaxJobs == 2

\* ------------------------------------------------------- program constants

MinBarsEngine == 50
MinBarsBackfill == 200
WarmupFloor == 50
WarmupCap == 200
WarmupDiv == 50
RsiPeriod == 14
MomLookback == 20
MomentumZ == 2
Swing == 3
DayMs == 24 * 60 * 60 * 1000
BarMs == 60 * 1000

NaN == 0 - 1

Max2(a, b) == IF a >= b THEN a ELSE b
Min2(a, b) == IF a <= b THEN a ELSE b
Abs(a) == IF a >= 0 THEN a ELSE 0 - a

\* ------------------------------------------------------------------- frames

At(f, k) == f[k + 1]
InRange(f, k) == k >= 0 /\ k <= Len(f) - 1

\* df.iloc[: i + 1]
Window(f, k) == SubSeq(f, 1, k + 1)

\* ---------------------------------------------------------- session_vwap

Day(ts) == ts \div DayMs

\* groupby(day).cumsum() of a column at row j: the sum over the rows k <= j of
\* the same UTC day as row j.  what = "pv" sums close * volume, "vv" sums
\* volume.  The sum is taken as the cardinality of the bag that holds row k
\* term(k) times (rows whose term is 0 add nothing and are left out).
DayTerm(b, what) == IF what = "pv" THEN b.close * b.volume ELSE b.volume
DayCumSum(f, j, what) ==
    LET rows == { k \in 0..j : /\ Day(At(f, k).ts) = Day(At(f, j).ts)
                               /\ DayTerm(At(f, k), what) > 0 }
    IN  BagCardinality([k \in rows |-> DayTerm(At(f, k), what)])

\* session_vwap(df)[j] as the pair <<pv, vv>>, standing for pv / (vv + 1e-12).
session_vwap(f, j) == << DayCumSum(f, j, "pv"), DayCumSum(f, j, "vv") >>

\* Comparisons of a positive integer price x with the float
\* vwap = pv / (vv + 1e-12), for integer pv and vv.  From a cumulative volume
\* of 2^14 on, 1e-12 is less than half the spacing of the doubles around vv:
\* vv + 1e-12 is vv again and the vwap is pv / vv exactly, so x equals it when
\* x * vv = pv.  Below that volume the denominator is a larger double than
\* vv and the vwap lies strictly below pv / vv.
EpsLostVolume == 16384

VwapEq(x, v) == v[2] >= EpsLostVolume /\ x * v[2] = v[1]

LeVwap(x, v) == x * v[2] < v[1] \/ VwapEq(x, v)
GtVwap(x, v) == x * v[2] > v[1] \/ (x * v[2] = v[1] /\ ~VwapEq(x, v))
GeVwap(x, v) == x * v[2] >= v[1]
LtVwap(x, v) == x * v[2] < v[1]

\* ---------------------------------------------------------- momentum_pop

\* The pct_change values of one frame are kept over the common denominator
\* RetScale; the bar sets of this model use the closes 100 and 101 only, for
\* which the scaled value is exact.
RetScale == 100 * 101

\* close.pct_change()[k], times RetScale; NaN at row 0.
PctChange(f, k) ==
    IF k < 1 THEN NaN
    ELSE ((At(f, k).close - At(f, k - 1).close) * RetScale) \div At(f, k - 1).close

RECURSIVE RetSum(_, _, _, _)
RetSum(f, lo, hi, pow) ==
    IF hi < lo THEN 0
    ELSE LET r == PctChange(f, hi)
         IN  (IF pow = 1 THEN r ELSE r * r) + RetSum(f, lo, hi - 1, pow)

\* momentum_pop(close, lookback, z)[j]: zscore > z, where
\* zscore = (ret - mean) / std over the last `lookback` returns (std with
\* ddof = 1, a zero std replaced by 1e-12).  A window that holds the NaN of
\* row 0 or is not full gives NaN, and NaN > z is False.
\* With n = lookback, S1 = sum r, S2 = sum r^2 and dev = n*r - S1:
\*   zscore > z  <=>  dev > 0 /\ dev^2 * (n-1) > z^2 * n * (n*S2 - S1^2).
momentum_pop(f, j) ==
    IF j < MomLookback THEN FALSE
    ELSE LET n == MomLookback
             S1 == RetSum(f, j - n + 1, j, 1)
             S2 == RetSum(f, j - n + 1, j, 2)
             dev == n * PctChange(f, j) - S1
         IN  /\ dev > 0
             /\ dev * dev * (n - 1) > MomentumZ * MomentumZ * n * (n * S2 - S1 * S1)

\* -------------------------------------------------------------------- rsi

\* rsi(close, period) is Wilder's relative-strength index: the gains and the
\* losses of close.diff() smoothed with weight 1/period,
\*   avg' = ((period - 1) * avg + x) / period,
\* rsi = 100 - 100 / (1 + avg_gain / avg_loss), undefined on the first
\* `period` rows.  The state after row k is <<wg, wl, s>> with
\* avg_gain = wg / s and avg_loss = wl / s; while both averages are 0 the
\* scale stays 1.
\* Unrolled from the first row m whose close moved, the recurrence gives
\*   wg = sum over r in m..k of gain[r] * (period-1)^(k-r) * period^(r-m),
\* wl likewise from the losses, and s = period^(k-m+1).
WilderState(f, k) ==
    LET diff(r) == At(f, r).close - At(f, r - 1).close
        moved == { r \in 1..k : diff(r) # 0 }
        m == CHOOSE r \in moved : \A o \in moved : r <= o
        weight(r) == ((RsiPeriod - 1) ^ (k - r)) * (RsiPeriod ^ (r - m))
        gains == { r \in m..k : diff(r) > 0 }
        losses == { r \in m..k : diff(r) < 0 }
    IN  IF moved = {} THEN << 0, 0, 1 >>
        ELSE << BagCardinality([r \in gains |-> diff(r) * weight(r)]),
                BagCardinality([r \in losses |-> (0 - diff(r)) * weight(r)]),
                RsiPeriod ^ (k - m + 1) >>

\* a / b < c / d for a, c >= 0 and b, d > 0, by the continued fractions of the
\* two ratios (no product is formed).
RECURSIVE FracLess(_, _, _, _)
FracLess(a, b, c, d) ==
    LET q1 == a \div b
        q2 == c \div d
        r1 == a % b
        r2 == c % d
    IN  IF q1 # q2 THEN q1 < q2
        ELSE IF r2 = 0 THEN FALSE
        ELSE IF r1 = 0 THEN TRUE
        ELSE FracLess(d, r2, b, r1)

\* rsi[x] < rsi[y] in frame f.  rsi grows with avg_gain / avg_loss; it is 100
\* when avg_loss = 0 < avg_gain and NaN (every comparison False) on the first
\* `period` rows and when both averages are 0.
RsiLess(f, x, y) ==
    LET sx == WilderState(f, x)
        sy == WilderState(f, y)
        defined(k, s) == k >= RsiPeriod /\ (s[1] > 0 \/ s[2] > 0)
    IN  /\ defined(x, sx) /\ defined(y, sy)
        /\ sx[2] > 0
        /\ \/ sy[2] = 0
           \/ FracLess(sx[1], sx[2], sy[1], sy[2])

\* ------------------------------------------------- find_rsi_divergences

ColAt(f, k, col) ==
    IF ~InRange(f, k) THEN NaN
    ELSE IF col = "high" THEN At(f, k).high ELSE At(f, k).low

\* Series.shift(s)[k]: the value s rows earlier (later for s < 0), NaN off the frame.
Shift(f, col, s, k) == ColAt(f, k - s, col)

\* a > b and a < b of pandas: False when either side is NaN.
Gt(a, b) == a # NaN /\ b # NaN /\ a > b
Lt(a, b) == a # NaN /\ b # NaN /\ a < b

\* ph[k] and pl[k] as written on lines 6-7.
PivotHighRaw(f, k) ==
    /\ Gt(Shift(f, "high", 1, k), Shift(f, "high", Swing, k))
    /\ Gt(Shift(f, "high", 1, k), Shift(f, "high", 0 - Swing, k))
PivotLowRaw(f, k) ==
    /\ Lt(Shift(f, "low", 1, k), Shift(f, "low", Swing, k))
    /\ Lt(Shift(f, "low", 1, k), Shift(f, "low", 0 - Swing, k))

\* A pivot low that needs no bar after it: a low below the low two rows back.
IsPivotLow_BackwardOnly(f, j) ==
    InRange(f, j) /\ Lt(Shift(f, "low", 0, j), Shift(f, "low", 2, j))

\* df["_ph"][j] = ph.shift(-1).fillna(False)[j]: ph of the next row, False on
\* the last row of the frame.
IsPivotHigh(f, j) == InRange(f, j) /\ InRange(f, j + 1) /\ PivotHighRaw(f, j + 1)
IsPivotLow(f, j) == InRange(f, j) /\ InRange(f, j + 1) /\ PivotLowRaw(f, j + 1)

\* The entry before b in ph_idx / pl_idx: the last pivot row below b, or NaN.
RECURSIVE PrevPivot(_, _, _)
PrevPivot(f, k, kind) ==
    IF k < 0 THEN NaN
    ELSE IF (IF kind = "high" THEN IsPivotHigh(f, k) ELSE IsPivotLow(f, k)) THEN k
    ELSE PrevPivot(f, k - 1, kind)

\* b in bears: b is a pivot high, a is the pivot high before it, price made a
\* higher high and rsi a lower high.
InBears(f, b) ==
    /\ IsPivotHigh(f, b)
    /\ LET a == PrevPivot(f, b - 1, "high")
       IN  /\ a # NaN
           /\ At(f, b).high > At(f, a).high
           /\ RsiLess(f, b, a)

\* b in bulls: lower low in price, higher low in rsi.
InBulls(f, b) ==
    /\ IsPivotLow(f, b)
    /\ LET a == PrevPivot(f, b - 1, "low")
       IN  /\ a # NaN
           /\ At(f, b).low < At(f, a).low
           /\ RsiLess(f, a, b)

\* ------------------------------------------------------- compute_signals

\* Row j of compute_signals(f): the columns the replay and the scorer read.
compute_signals(f, j) ==
    LET b == At(f, j)
        v == session_vwap(f, j)
    IN  [ close       |-> b.close,
          vwap        |-> v,
          bull_div    |-> InBulls(f, j),
          bear_div    |-> InBears(f, j),
          sweep_long  |-> LeVwap(b.low, v) /\ GtVwap(b.close, v),
          sweep_short |-> GeVwap(b.high, v) /\ LtVwap(b.close, v),
          mom_pop     |-> momentum_pop(f, j) ]

\* -------------------------------------------------------------- score_row

B2N(x) == IF x THEN 1 ELSE 0

\* The values round(score, 3) can give for the sum score_row accumulates, in
\* thousandths and before the clip.  bonus = max(0, 1 - min(dist / 0.25, 1))
\* with dist = |close - vwap| / vwap * 100 is the ratio bn / bd below; it is
\* 0 when vwap is not positive.  The sum is a float: where the exact sum lies
\* half-way between two thousandths the float decides.  Below EpsLostVolume the
\* vwap of session_vwap is a little under pv / vv, so with the close above it
\* the bonus and the sum fall short of the half, and with the close below it
\* they exceed it; from EpsLostVolume on the last bit of the float operations
\* decides and the sum may land on either side.
ScoreTotal(row) ==
    LET pv == row.vwap[1]
        vv == row.vwap[2]
        d  == Abs(row.close * vv - pv)
        bn == IF pv > 0 /\ d <= pv \div 400 THEN pv - 400 * d ELSE 0
        bd == IF pv > 0 THEN pv ELSE 1
        ndiv == B2N(row.bull_div) + B2N(row.bear_div)
        fixed == 2500 * B2N(row.sweep_long) + 2500 * B2N(row.sweep_short)
                 + 1800 * ndiv + 600 * B2N(row.mom_pop)
        k == 500 * ndiv + 700
        below == fixed + ((2 * k * bn) \div (2 * bd))
    IN  IF (2 * k * bn) % (2 * bd) # bd
        THEN {fixed + ((2 * k * bn + bd) \div (2 * bd))}
        ELSE IF vv >= EpsLostVolume THEN {below, below + 1}
        ELSE IF row.close * vv > pv THEN {below}
        ELSE {below + 1}

\* The sums returned as they are.
score_row_NoClip(row) == ScoreTotal(row)

\* The values score_row(row) can return, in thousandths: the sum clipped to
\* [0, 10] and rounded to 3 decimals (one value, except for a half-way sum
\* at a volume of EpsLostVolume or more).
score_row(row) == { Max2(0, Min2(10000, t)) : t \in ScoreTotal(row) }

\* score = 2.0 + min(abs(float(sig["basis_z"])), 5.0), in thousandths, of a
\* basis_z given in thousandths.
BasisScore(basis_z) == 2000 + Min2(Abs(basis_z), 5000)

\* ------------------------------------------------------------------ state

VARIABLES
    mode,         \* what runs: "engine" (BacktestEngine) or "backfill" replay one
                  \* symbol, "evaluate" / "job" the two outcome evaluators, "run" /
                  \* "worker" the two batches, the others one function each
    df,           \* the fetched bar series of the symbol
    min_score,    \* alert_min_score / min_score, in thousandths
    cooldown_sec, \* cooldown_sec, in seconds
    supa,         \* whether the replayer has a Supabase client (self.supa / supa)
    pc,           \* position of the run: "start", "loop", "done", "raised"
    i,            \* the loop index of the replay
    last_alert,   \* self.last_alert: (venue, symbol) -> seconds; the backfill's local
                  \* last_alert_ts is kept under the replay's key
    signals,      \* rows of the signals table, in insertion order
    executions,   \* rows of the executions table, in insertion order
    n_sig,        \* n_sig / sig_ct
    n_exec,       \* n_exec / exe_ct
    result,       \* the value returned to the caller, "none" while running
    interval,     \* the interval string of the evaluated series ("1m", "15m", ...)
    outcomes,     \* rows of the SQLite signal_outcomes table, in insertion order
    sb_outcomes,  \* rows of the Supabase signal_outcomes table (jobs/outcomes.py)
    run_lens,     \* len(df) at each completed run of compute_outcomes_from_df
    sq_df,        \* the bars the last compute_outcomes_from_df run read, << >> before it
    n_jobs,       \* the runs of the outcomes job started so far
    jobs,         \* the runs of the outcomes job that have not returned, in
                  \* starting order: where each stands (pc) and its locals
                  \* since, items (signals, then the pending ones) and rows
    feat_win,     \* compute_signals(bars[0..i]) at its last row i
    feat_full,    \* compute_signals(bars) at the same row i
    fn_in,        \* the arguments of the function under application, << >> when none
    fn_out,       \* what the function returned for fn_in, << >> before the call
    symbols,      \* the symbols of a multi-symbol run, each with what its replay does
    b_done,       \* the indexes of the symbols whose replay has ended
    b_results,    \* the values the ended replays returned, by symbol index
    b_status,     \* the multi-symbol run: "idle", "running", "returned", "raised"
                  \* (run() or _worker left with the exception), "closed"
                  \* (asyncio.run has cancelled what was left and ended)
    b_active,     \* the indexes of the symbols whose replay is in progress
    concurrency,  \* the permits of _worker's semaphore, 0 when there is none
    b_failed,     \* the indexes of the symbols whose replay raised
    b_cancelled,  \* the indexes of the symbols whose task asyncio.run cancelled
    p_last,       \* COOLDOWNS.last: key -> (last_ts, last_side, last_score)
    p_now,        \* time.time(), in seconds
    p_ret         \* the last call of the policy: its entry point, key, side and
                  \* score, whether it raised, what it returned, whether it called
                  \* COOLDOWNS.ok, and the key's cache entry before it (if any)

replay_vars == << pc, i, last_alert, executions, n_sig, n_exec, result,
                  min_score, cooldown_sec, supa >>
eval_vars == << interval, outcomes, sb_outcomes, run_lens, sq_df, n_jobs, jobs >>
feat_vars == << feat_win, feat_full >>
fn_vars == << fn_in, fn_out >>
batch_vars == << symbols, b_done, b_results, b_status, b_active, concurrency, b_failed,
                 b_cancelled >>

policy_vars == << p_last, p_now, p_ret >>

vars == << mode, df, signals, replay_vars, eval_vars, feat_vars, fn_vars, batch_vars,
           policy_vars >>

\* ----------------------------------------------------------------- inputs

\* The bars the inputs are built from: the flat bar of the warm-up and three
\* shapes the triggers react to.  Bar k of a series is stamped k minutes after the epoch.
BarShapes ==
    [ flat |-> [open |-> 100, high |-> 100, low |-> 100, close |-> 100, volume |-> 1],
      up   |-> [open |-> 100, high |-> 102, low |-> 99,  close |-> 101, volume |-> 1],
      down |-> [open |-> 101, high |-> 103, low |-> 100, close |-> 100, volume |-> 1],
      gap  |-> [open |-> 101, high |-> 101, low |-> 101, close |-> 101, volume |-> 1] ]

TailKinds == {"up", "down", "gap"}

MkBar(kind, k) ==
    LET s == BarShapes[kind]
    IN  [ts |-> k * BarMs, open |-> s.open, high |-> s.high, low |-> s.low,
         close |-> s.close, volume |-> s.volume]

Tails == UNION { [1..n -> TailKinds] : n \in 0..MaxTail }

\* A flat warm-up of nflat bars followed by the bars of tail.
Series(nflat, tail) ==
    [k \in 1..(nflat + Len(tail)) |->
        IF k <= nflat THEN MkBar("flat", k - 1) ELSE MkBar(tail[k - nflat], k - 1)]

\* Warm-up lengths: a 40-bar series (too short for either replayer), and a
\* warm-up of exactly the minimum bar count of each.
FlatLens(m) == IF m = "engine" THEN {40, MinBarsEngine} ELSE {190, MinBarsBackfill}

\* The thresholds and cooldowns tried: the defaults of the two command lines
\* (2.3 / 180 s for the engine, 2.8 / 120 s for the backfill) and a shorter
\* cooldown for the engine; the backfill also runs with a threshold of 0.5,
\* which a signal with a single weak trigger passes.
MinScores(m) == IF m = "engine" THEN {2300} ELSE {500, 2800}
Cooldowns(m) == IF m = "engine" THEN {120, 180} ELSE {120}

\* Whether the replayer has a Supabase client: none (the default), and also
\* one for the engine at the 120 s cooldown and for the backfill at the
\* threshold 0.5, on series of n bars with up to MaxSupaTail bars after the
\* warm-up of min bars.
Supas(m, n, ms, cd) ==
    LET min == IF m = "engine" THEN MinBarsEngine ELSE MinBarsBackfill
    IN  IF /\ min <= n /\ n <= min + MaxSupaTail
           /\ (m = "engine" /\ cd = 120) \/ (m = "backfill" /\ ms = 500)
        THEN BOOLEAN ELSE {FALSE}

\* ------------------------------------------------------------ the replay

\* window["ts"].iloc[-1].timestamp(): epoch seconds of a bar.
Timestamp(b) == b.ts \div 1000

\* BacktestEngine.run_symbol, lines 67-70.
EngineTriggers(last) ==
    (IF last.sweep_long /\ last.bull_div THEN << "VWAP sweep + Bull Div" >> ELSE << >>)
    \o (IF last.sweep_short /\ last.bear_div THEN << "VWAP sweep + Bear Div" >> ELSE << >>)
    \o (IF last.mom_pop THEN << "Momentum Pop" >> ELSE << >>)

\* backfill_symbol, lines 98-103.
BackfillTriggers(last) ==
    (IF last.sweep_long THEN << "VWAP Sweep Long" >> ELSE << >>)
    \o (IF last.sweep_short THEN << "VWAP Sweep Short" >> ELSE << >>)
    \o (IF last.bull_div THEN << "Bull Div" >> ELSE << >>)
    \o (IF last.bear_div THEN << "Bear Div" >> ELSE << >>)
    \o (IF last.mom_pop THEN << "Momentum Pop" >> ELSE << >>)

\* engine.py line 78.
EngineSide(last) == IF last.sweep_long \/ last.bull_div THEN "LONG" ELSE "SHORT"

\* backfill.py lines 112-116.
BackfillSide(last) ==
    LET s1 == IF last.sweep_short \/ last.bear_div THEN "SHORT" ELSE "LONG"
    IN  IF last.sweep_long \/ last.bull_div THEN "LONG" ELSE s1

\* A gate that forgets the score threshold.
PassesGate_TriggersOnly(triggers, score, minimum) == triggers # << >>

\* The quality gate: `if triggers and score >= alert_min_score` (engine),
\* `if not triggers: continue; if last_score < min_score: continue` (backfill).
PassesGate(triggers, score, minimum) == triggers # << >> /\ score >= minimum

\* A cooldown that only rejects bars older than the last signal.
InCooldown_NoSpacing(now, last, cooldown) == now - last < 0

\* The cooldown test: `now - last < cooldown_sec` skips the bar.
InCooldown(now, last, cooldown) == now - last < cooldown

\* `if len(df) < 50` of run_symbol.
EngineTooFew(n) == n < MinBarsEngine

\* A backfill that asks for the engine's minimum only.
BackfillTooFew_EngineMin(n) == n < MinBarsEngine

\* `if n < 200` of backfill_symbol.
BackfillTooFew(n) == n < MinBarsBackfill

\* start_i = max(50, min(200, n // 50))
StartIndex(n) == Max2(WarmupFloor, Min2(WarmupCap, n \div WarmupDiv))

\* The index of the bar a signal at bar k is filled at, or NaN when the
\* engine finds no next bar (`if i+1 < len(df)`).
EngineFillIndex(f, k) == IF k + 1 < Len(f) THEN k + 1 ELSE NaN

SignalRow(id, f, k, last, score, triggers, side) ==
    [ id |-> id, ts |-> Timestamp(At(f, k)), side |-> side, price |-> last.close,
      vwap |-> last.vwap, score |-> score, triggers |-> triggers,
      bar |-> k ]

\* The execution row; `bar` records the index of the bar it was priced at and
\* `sig` the id of the signal it was emitted for (neither is a column).
ExecRow(f, k, side, score, triggers, sid) ==
    [ ts |-> Timestamp(At(f, k)), side |-> side, price |-> At(f, k).open,
      score |-> score, reason |-> triggers, bar |-> k, sig |-> sid ]

\* The evaluator's and the feature check's variables while a replay runs.
EvalIdle ==
    /\ interval = "1m"
    /\ outcomes = << >>
    /\ sb_outcomes = << >>
    /\ run_lens = << >>
    /\ sq_df = << >>
    /\ n_jobs = 0
    /\ jobs = << >>

FeatIdle == feat_win = << >> /\ feat_full = << >>

\* No function is under application, and no multi-symbol run is under way.
FnIdle == fn_in = << >> /\ fn_out = << >>

\* No policy call has been made.
PolicyIdle == p_last = << >> /\ p_now = 0 /\ p_ret = << >>

BatchIdle ==
    /\ symbols = << >> /\ b_done = {} /\ b_results = << >> /\ b_status = "idle"
    /\ b_active = {} /\ concurrency = 0 /\ b_failed = {} /\ b_cancelled = {}

\* The key of the symbol under replay, and the key of another symbol the same
\* engine replayed before it, with the time of that symbol's last signal.
ReplayKey == << "kucoin", "BTCUSDT" >>
OtherKey == << "kucoin", "ETHUSDT" >>
OtherAlert == 60

\* An update that stamps every key of the dict.
SetAlert_AllKeys(alerts, key, now) ==
    [k \in DOMAIN alerts \cup {key} |-> now]

\* self.last_alert.get(key, 0) and self.last_alert[key] = now.
GetAlert(alerts, key) == IF key \in DOMAIN alerts THEN alerts[key] ELSE 0
SetAlert(alerts, key, now) ==
    [k \in DOMAIN alerts \cup {key} |-> IF k = key THEN now ELSE alerts[k]]

Init ==
    /\ PolicyIdle
    /\ mode \in {"engine", "backfill"}
    /\ \E nflat \in FlatLens(mode), tail \in Tails : df = Series(nflat, tail)
    /\ min_score \in MinScores(mode)
    /\ cooldown_sec \in Cooldowns(mode)
    /\ supa \in Supas(mode, Len(df), min_score, cooldown_sec)
    /\ pc = "start"
    /\ i = 0
    /\ last_alert = IF mode = "engine" THEN [k \in {OtherKey} |-> OtherAlert] ELSE << >>
    /\ signals = << >>
    /\ executions = << >>
    /\ n_sig = 0
    /\ n_exec = 0
    /\ result = "none"
    /\ EvalIdle
    /\ FeatIdle
    /\ FnIdle
    /\ BatchIdle

\* run_symbol up to the loop: too few bars return (0, 0) at once.
EngineStart ==
    /\ mode = "engine" /\ pc = "start"
    /\ IF EngineTooFew(Len(df))
       THEN /\ pc' = "done"
            /\ result' = [signals |-> 0, executions |-> 0]
            /\ i' = i
       ELSE /\ pc' = "loop"
            /\ i' = MinBarsEngine
            /\ result' = result
    /\ UNCHANGED << mode, policy_vars, df, min_score, cooldown_sec, supa, last_alert, signals,
                    executions, n_sig, n_exec, eval_vars, feat_vars, fn_vars,
                    batch_vars >>

\* One iteration of `for i in range(50, len(df))`.  With a Supabase client
\* the mirror of a filled signal, self.supa.log_signal(**row), is called
\* with the key "ts", which log_signal does not take: the TypeError leaves
\* run_symbol after the signal and its execution were stored.
EngineStep ==
    /\ mode = "engine" /\ pc = "loop" /\ i < Len(df)
    /\ LET window == Window(df, i)
           last == compute_signals(window, Len(window) - 1)
       IN  \E score \in score_row(last) :
           LET triggers == EngineTriggers(last)
               now == Timestamp(At(window, Len(window) - 1))
               side == EngineSide(last)
               sid == Len(signals) + 1
               fill == EngineFillIndex(df, i)
               raises == fill # NaN /\ supa
           IN  IF PassesGate(triggers, score, min_score)
                  /\ ~InCooldown(now, GetAlert(last_alert, ReplayKey), cooldown_sec)
               THEN /\ last_alert' = SetAlert(last_alert, ReplayKey, now)
                    /\ signals' = Append(signals,
                            SignalRow(sid, window, i, last, score, triggers, side))
                    /\ n_sig' = n_sig + 1
                    /\ IF fill # NaN
                       THEN /\ executions' = Append(executions,
                                    ExecRow(df, fill, side, score, triggers, sid))
                            /\ n_exec' = n_exec + 1
                       ELSE UNCHANGED << executions, n_exec >>
                    /\ pc' = IF raises THEN "raised" ELSE pc
                    /\ i' = IF raises THEN i ELSE i + 1
               ELSE /\ UNCHANGED << last_alert, signals, executions, n_sig, n_exec, pc >>
                    /\ i' = i + 1
    /\ UNCHANGED << mode, policy_vars, df, min_score, cooldown_sec, supa, result, eval_vars,
                    feat_vars, fn_vars, batch_vars >>

\* `return n_sig, n_exec`
EngineReturn ==
    /\ mode = "engine" /\ pc = "loop" /\ i >= Len(df)
    /\ pc' = "done"
    /\ result' = [signals |-> n_sig, executions |-> n_exec]
    /\ UNCHANGED << mode, policy_vars, df, min_score, cooldown_sec, supa, i, last_alert, signals,
                    executions, n_sig, n_exec, eval_vars, feat_vars, fn_vars,
                    batch_vars >>

\* backfill_symbol up to the loop: fewer than 200 bars return zero counts.
BackfillStart ==
    /\ mode = "backfill" /\ pc = "start"
    /\ IF BackfillTooFew(Len(df))
       THEN /\ pc' = "done"
            /\ result' = [signals |-> 0, executions |-> 0, outcomes |-> 0]
            /\ i' = i
       ELSE /\ pc' = "loop"
            /\ i' = StartIndex(Len(df))
            /\ result' = result
    /\ UNCHANGED << mode, policy_vars, df, min_score, cooldown_sec, supa, last_alert, signals,
                    executions, n_sig, n_exec, eval_vars, feat_vars, fn_vars,
                    batch_vars >>

\* One iteration of `for i in range(start_i, n - 1)`.  With a Supabase
\* client supa.log_signal(**sig_row) is called with the keys "ts" and
\* "signal_key", which log_signal does not take: the TypeError leaves
\* backfill_symbol after the signal was stored and before its execution.
BackfillStep ==
    /\ mode = "backfill" /\ pc = "loop" /\ i < Len(df) - 1
    /\ LET window == Window(df, i)
           last == compute_signals(window, Len(window) - 1)
       IN  \E score \in score_row(last) :
           LET triggers == BackfillTriggers(last)
               side == BackfillSide(last)
               now == Timestamp(At(window, Len(window) - 1))
               sid == Len(signals) + 1
           IN  IF PassesGate(triggers, score, min_score)
                  /\ ~InCooldown(now, GetAlert(last_alert, ReplayKey), cooldown_sec)
               THEN /\ last_alert' = SetAlert(last_alert, ReplayKey, now)
                    /\ signals' = Append(signals,
                            SignalRow(sid, window, i, last, score, triggers, side))
                    /\ n_sig' = n_sig + 1
                    /\ IF supa
                       THEN /\ UNCHANGED << executions, n_exec, i >>
                            /\ pc' = "raised"
                       ELSE /\ executions' = Append(executions,
                                    ExecRow(df, i + 1, side, score, triggers, sid))
                            /\ n_exec' = n_exec + 1
                            /\ i' = i + 1
                            /\ pc' = pc
               ELSE /\ UNCHANGED << last_alert, signals, executions, n_sig, n_exec, pc >>
                    /\ i' = i + 1
    /\ UNCHANGED << mode, policy_vars, df, min_score, cooldown_sec, supa, result, eval_vars,
                    feat_vars, fn_vars, batch_vars >>

\* compute_outcomes_sqlite_rows(venue, symbol, interval, lookback, store): the
\* call of backfill_symbol passes no df, and the wrapper then returns [].
compute_outcomes_sqlite_rows_nodf == << >>

\* After the loop: the outcome rows are counted and the counts returned.
BackfillReturn ==
    /\ mode = "backfill" /\ pc = "loop" /\ i >= Len(df) - 1
    /\ pc' = "done"
    /\ result' = [signals |-> n_sig, executions |-> n_exec,
                  outcomes |-> Len(compute_outcomes_sqlite_rows_nodf)]
    /\ UNCHANGED << mode, policy_vars, df, min_score, cooldown_sec, supa, i, last_alert, signals,
                    executions, n_sig, n_exec, eval_vars, feat_vars, fn_vars,
                    batch_vars >>

Next ==
    \/ EngineStart
    \/ EngineStep
    \/ EngineReturn
    \/ BackfillStart
    \/ BackfillStep
    \/ BackfillReturn

Spec == Init /\ [][Next]_vars


\* ======================================================= outcome evaluator

\* A float kept as the ratio num / den (den > 0).
Ratio(num, den) == [num |-> num, den |-> den]

\* _dir(side)
Dir(side) == IF side = "LONG" THEN 1 ELSE 0 - 1

\* _ts_ms(ts_iso): the signal's ISO timestamp as epoch milliseconds (the
\* model keeps the timestamp text as its epoch seconds).
TsMs(ts) == ts * 1000

\* df.sort_values("ts"): the rows in ascending ts order, rows of equal ts in
\* their original order: a frame already in order is left as it is, otherwise
\* row k goes to the place given by the number of rows that sort before it.
SortByTs(f) ==
    LET before(k) == { m \in 1..Len(f) : f[m].ts < f[k].ts \/ (f[m].ts = f[k].ts /\ m < k) }
    IN  IF \A k \in 1..(Len(f) - 1) : f[k].ts <= f[k + 1].ts THEN f
        ELSE [r \in 1..Len(f) |-> f[CHOOSE k \in 1..Len(f) : Cardinality(before(k)) = r - 1]]

\* The while loop of backtest/metrics._nearest_index.
RECURSIVE BinarySearch(_, _, _, _)
BinarySearch(f, lo, hi, ts_ms) ==
    IF lo > hi THEN lo
    ELSE LET mid == (lo + hi) \div 2
         IN  IF At(f, mid).ts < ts_ms
             THEN BinarySearch(f, mid + 1, hi, ts_ms)
             ELSE BinarySearch(f, lo, mid - 1, ts_ms)

\* backtest/metrics._nearest_index: lower bound, -1 when off the end.
NearestIndexBinary(f, ts_ms) ==
    LET lo == BinarySearch(f, 0, Len(f) - 1, ts_ms)
    IN  IF lo < Len(f) THEN lo ELSE NaN

\* The scan of jobs/outcomes._nearest_index from row k on.
RECURSIVE LinearScan(_, _, _)
LinearScan(f, k, ts_ms) ==
    IF k > Len(f) - 1 THEN NaN
    ELSE IF At(f, k).ts >= ts_ms THEN k
    ELSE LinearScan(f, k + 1, ts_ms)

\* What `ts_ms > arr[-1]` and `t >= ts_ms` do between the int ts_ms and the
\* datetime64[ns] values of a frame's ts column is a matter of the numpy
\* installed: the comparison raises TypeError, or the int is cast to
\* datetime64[ns].
Builds == {"raises", "casts"}

NsPerMs == 1000000

\* An int cast to datetime64[ns] counts nanoseconds.  Against a bar time of
\* t milliseconds, t >= ts_ms is t >= CastKey(ts_ms) and ts_ms > t is
\* CastKey(ts_ms) > t.
CastKey(ts_ms) == (ts_ms + NsPerMs - 1) \div NsPerMs

\* jobs/outcomes._nearest_index on a frame of to_dataframe: what it returns,
\* or raised = TRUE when the comparison raises.  The empty frame returns -1
\* before anything is compared.
NearestIndexLinear(f, ts_ms, build) ==
    IF Len(f) = 0 THEN [raised |-> FALSE, index |-> NaN]
    ELSE IF build = "raises" THEN [raised |-> TRUE, index |-> NaN]
    ELSE [raised |-> FALSE,
          index |-> IF CastKey(ts_ms) > At(f, Len(f) - 1).ts THEN NaN
                    ELSE LinearScan(f, 0, CastKey(ts_ms))]

\* A window high read from the entry bar alone.
SegHigh_EntryBar(f, a, b) == At(f, a).high

\* seg["high"].max() and seg["low"].min() over rows a..b.
RECURSIVE SegHigh(_, _, _)
SegHigh(f, a, b) ==
    IF a = b THEN At(f, a).high ELSE Max2(At(f, b).high, SegHigh(f, a, b - 1))
RECURSIVE SegLow(_, _, _)
SegLow(f, a, b) ==
    IF a = b THEN At(f, a).low ELSE Min2(At(f, b).low, SegLow(f, a, b - 1))

\* An exit that does not walk forward from the entry bar.
ExitIndex_AtEntry(f, i_entry, bars) == Min2(Len(f) - 1, i_entry)

\* i1 = min(len(df) - 1, i_entry + max(1, bars))
ExitIndex(f, i_entry, bars) == Min2(Len(f) - 1, i_entry + Max2(1, bars))

\* backtest/metrics._calc_window.
CalcWindow(f, i_entry, bars, side, entry) ==
    LET d == Dir(side)
        i1 == ExitIndex(f, i_entry, bars)
        exit_price == At(f, i1).close
        hi == SegHigh(f, i_entry, i1)
        lo == SegLow(f, i_entry, i1)
        up == Ratio(Max2(0, hi - entry), entry)
        dn == Ratio(Max2(0, entry - lo), lo)
    IN  [ ret |-> Ratio((exit_price - entry) * d, entry),
          mfe |-> IF d > 0 THEN up ELSE dn,
          mae |-> IF d > 0 THEN dn ELSE up,
          exit_price |-> exit_price,
          i_exit |-> i1 ]

\* jobs/outcomes._calc_window_metrics over rows i0..i1.
CalcWindowMetrics(f, i0, i1, side, entry_price) ==
    LET d == Dir(side)
        exit_price == At(f, i1).close
        hi == SegHigh(f, i0, i1)
        lo == SegLow(f, i0, i1)
        up == Ratio(hi - entry_price, entry_price)
        dn == Ratio(entry_price - lo, lo)
    IN  [ ret |-> Ratio((exit_price - entry_price) * d, entry_price),
          max_fav |-> IF d > 0 THEN up ELSE dn,
          max_adv |-> IF d > 0 THEN dn ELSE up,
          exit_price |-> exit_price ]

\* HORIZONS_MIN of backtest/metrics.py and of jobs/outcomes.py.
HorizonsMetrics == << 15, 30, 60 >>
HorizonsJob == << 5, 15, 30, 60 >>

\* step = int(interval.rstrip("m")), 1 when that raises ("1h").
IntervalStep(iv) == IF iv = "1m" THEN 1 ELSE IF iv = "3m" THEN 3 ELSE IF iv = "5m" THEN 5
                    ELSE IF iv = "15m" THEN 15 ELSE 1

\* bars = max(1, int(h // step))
BarsMetrics(h, iv) == Max2(1, h \div IntervalStep(iv))

\* bars = h // (1 if cfg.interval.endswith("m") else 60)
BarsJob(h, iv) == h \div (IF iv = "1h" THEN 60 ELSE 1)

\* An entry at the located bar itself.
EntryIndex_SignalBar(f, i0) == i0

\* i_entry = min(i0 + 1, len(df) - 1)
EntryIndex(f, i0) == Min2(i0 + 1, Len(f) - 1)

\* `ORDER BY ts ASC` over the signals of the key (ties in id order).
RECURSIVE InsertSignalByTs(_, _)
InsertSignalByTs(sorted, r) ==
    IF sorted = << >> THEN << r >>
    ELSE IF sorted[Len(sorted)].ts <= r.ts THEN Append(sorted, r)
    ELSE Append(InsertSignalByTs(SubSeq(sorted, 1, Len(sorted) - 1), r), sorted[Len(sorted)])

RECURSIVE OrderByTs(_)
OrderByTs(rows) ==
    IF rows = << >> THEN << >>
    ELSE InsertSignalByTs(OrderByTs(SubSeq(rows, 1, Len(rows) - 1)), rows[Len(rows)])

\* The rows compute_outcomes_from_df appends for one signal: none when the
\* signal is past the last bar, else one per horizon.  i0, i_entry, i_exit and
\* n_bars record the indexes the prices were read at and len(df); they are
\* not columns of the table.
MetricsRowsOf(f, iv, sg) ==
    LET i0 == NearestIndexBinary(f, TsMs(sg.ts))
    IN  IF i0 < 0 THEN << >>
        ELSE LET i_entry == EntryIndex(f, i0)
                 entry == At(f, i_entry).open
             IN  [ n \in 1..Len(HorizonsMetrics) |->
                     LET h == HorizonsMetrics[n]
                         w == CalcWindow(f, i_entry, BarsMetrics(h, iv), sg.side, entry)
                     IN  [ signal_id |-> sg.id, horizon_m |-> h,
                           entry_price |-> entry, exit_price |-> w.exit_price,
                           ret |-> w.ret, max_fav |-> w.mfe, max_adv |-> w.mae,
                           i0 |-> i0, i_entry |-> i_entry, i_exit |-> w.i_exit,
                           n_bars |-> Len(f) ] ]

RECURSIVE MetricsRows(_, _, _)
MetricsRows(f, iv, sigs) ==
    IF sigs = << >> THEN << >>
    ELSE MetricsRowsOf(f, iv, Head(sigs)) \o MetricsRows(f, iv, Tail(sigs))

\* backtest/metrics.compute_outcomes_from_df: the list `out`.
compute_outcomes_from_df(f, iv, sigs) ==
    IF f = << >> THEN << >>
    ELSE MetricsRows(SortByTs(f), iv, OrderByTs(sigs))

\* The rows the outcomes job appends for one signal whose lookup returned.
JobRowsOf(f, iv, sg, build) ==
    LET i0 == NearestIndexLinear(f, TsMs(sg.ts), build).index
    IN  IF i0 < 0 \/ i0 >= Len(f) THEN << >>
        ELSE LET entry == At(f, i0).close
             IN  [ n \in 1..Len(HorizonsJob) |->
                     LET h == HorizonsJob[n]
                         i1 == Min2(i0 + Max2(BarsJob(h, iv), 1), Len(f) - 1)
                         w == CalcWindowMetrics(f, i0, i1, sg.side, entry)
                     IN  [ signal_id |-> sg.id, ts |-> sg.ts, horizon_m |-> h,
                           entry_price |-> entry, exit_price |-> w.exit_price,
                           ret |-> w.ret, max_fav |-> w.max_fav, max_adv |-> w.max_adv,
                           i0 |-> i0, i_entry |-> i0, i_exit |-> i1,
                           n_bars |-> Len(f) ] ]

RECURSIVE JobRows(_, _, _, _)
JobRows(f, iv, sigs, build) ==
    IF sigs = << >> THEN << >>
    ELSE JobRowsOf(f, iv, Head(sigs), build) \o JobRows(f, iv, Tail(sigs), build)

\* The first n rows of a select with `limit` n.
Take(rows, n) == SubSeq(rows, 1, Min2(Len(rows), n))

SignalsLimit == 1000
OutcomesLimit == 2000

\* The signals select of the job: ts >= since, order ts.asc, limit 1000.
SelectSignals(table, since) ==
    Take(SelectSeq(OrderByTs(table), LAMBDA sg : sg.ts >= since), SignalsLimit)

\* done_ids: the signals with a row at the largest horizon among the rows
\* the signal_outcomes select returns (ts >= since, limit 2000).
DoneIds(table, since) ==
    LET largest == CHOOSE h \in { HorizonsJob[n] : n \in 1..Len(HorizonsJob) } :
                       \A n \in 1..Len(HorizonsJob) : HorizonsJob[n] <= h
        existing == Take(SelectSeq(table, LAMBDA r : r.horizon_m = largest /\ r.ts >= since),
                         OutcomesLimit)
    IN  { existing[n].signal_id : n \in 1..Len(existing) }

\* jobs/outcomes.compute_outcomes from the fetched frame on: the list `rows`
\* for the pending signals, or raised = TRUE when a lookup raises.
compute_outcomes(f, iv, items, build) ==
    IF Len(f) = 0 THEN [raised |-> FALSE, rows |-> << >>]
    ELSE IF \E n \in 1..Len(items) : NearestIndexLinear(f, TsMs(items[n].ts), build).raised
    THEN [raised |-> TRUE, rows |-> << >>]
    ELSE [raised |-> FALSE, rows |-> JobRows(f, iv, items, build)]

SameKey(a, b) == a.signal_id = b.signal_id /\ a.horizon_m = b.horizon_m

\* INSERT ... ON CONFLICT(signal_id, horizon_m) DO UPDATE of one row.
UpsertOne(table, r) ==
    IF \E n \in 1..Len(table) : SameKey(table[n], r)
    THEN [ n \in 1..Len(table) |-> IF SameKey(table[n], r) THEN r ELSE table[n] ]
    ELSE Append(table, r)

\* A plain INSERT of every row.
upsert_outcomes_InsertOnly(table, rows) == table \o rows

\* SQLiteStore.upsert_outcomes (executemany over the rows, in order).
RECURSIVE upsert_outcomes(_, _)
upsert_outcomes(table, rows) ==
    IF rows = << >> THEN table
    ELSE upsert_outcomes(UpsertOne(table, Head(rows)), Tail(rows))

\* ------------------------------------------------ evaluator inputs, actions

\* Two bar shapes: a well-formed bar, and a bar whose close lies above its
\* high, as an exchange feed can deliver and to_dataframe lets through.
OutShapes ==
    [ range |-> [open |-> 102, high |-> 103, low |-> 100, close |-> 101, volume |-> 1],
      odd   |-> [open |-> 100, high |-> 100, low |-> 100, close |-> 101, volume |-> 1] ]

OutKinds == {"range", "odd"}

\* Bar k of an evaluated series closes k + 1 minutes after the epoch.
OutBar(kind, k) ==
    LET s == OutShapes[kind]
    IN  [ts |-> (k + 1) * BarMs, open |-> s.open, high |-> s.high, low |-> s.low,
         close |-> s.close, volume |-> s.volume]

OutSeries ==
    UNION { { [k \in 1..n |-> OutBar(kinds[k], k - 1)] : kinds \in [1..n -> OutKinds] }
            : n \in {MaxBarsOut - 1, MaxBarsOut} }

\* Signal times, in epoch seconds: the time of the first bar, and half a
\* minute before the last bar a series can have.
SigTimes == {60, MaxBarsOut * 60 - 30}

SignalTables ==
    UNION { { [k \in 1..n |-> [id |-> k, ts |-> pick[k][1], side |-> pick[k][2]]]
              : pick \in [1..n -> SigTimes \X {"LONG", "SHORT"}] }
            : n \in 0..MaxSigs }

ReplayIdle ==
    /\ pc = "idle" /\ i = 0 /\ last_alert = << >> /\ executions = << >>
    /\ n_sig = 0 /\ n_exec = 0 /\ result = "none"
    /\ min_score = 0 /\ cooldown_sec = 0 /\ supa = FALSE

InitEval ==
    /\ PolicyIdle
    /\ mode \in {"evaluate", "job"}
    /\ df \in OutSeries
    /\ signals \in SignalTables
    /\ interval \in {"1m", "15m"}
    /\ outcomes = << >>
    /\ sb_outcomes = << >>
    /\ run_lens = << >>
    /\ sq_df = << >>
    /\ n_jobs = 0
    /\ jobs = << >>
    /\ ReplayIdle
    /\ FeatIdle
    /\ FnIdle
    /\ BatchIdle

\* One run of compute_outcomes_from_df: the rows are computed from the bars
\* at hand and upserted when there are any.
EvalSqlite ==
    /\ mode = "evaluate" /\ Len(run_lens) < MaxRuns
    /\ LET out == compute_outcomes_from_df(df, interval, signals)
       IN  outcomes' = IF out # << >> THEN upsert_outcomes(outcomes, out) ELSE outcomes
    /\ run_lens' = Append(run_lens, Len(df))
    /\ sq_df' = df
    /\ UNCHANGED << mode, policy_vars, df, signals, replay_vars, interval, sb_outcomes, n_jobs,
                    jobs, feat_vars, fn_vars,
                    batch_vars >>

\* datetime.now(timezone.utc) at the start of a job run, in epoch seconds:
\* the time of the last bar a series can have, and a day and 100 s after the
\* epoch, when the signals of the first bar are more than 24 h old.
DaySec == DayMs \div 1000
JobNows == {MaxBarsOut * 60, DaySec + 100}

\* A job run at position pc with the locals the rest of the run reads: since
\* and the selected signals before done_ids is known, the pending signals
\* before the fetch, the rows before the upsert; a run that an exception has
\* ended has none.
JobRun(pc_, since, items, rows) ==
    [pc |-> pc_, since |-> since, items |-> items, rows |-> rows]
JobRaised == JobRun("raised", 0, << >>, << >>)
JobConfigError == JobRun("config_error", 0, << >>, << >>)

\* What load_settings and the Supabase settings make of a run: an INTERVAL
\* outside _VALID_INTERVALS (SystemExit in load_settings), Supabase not
\* configured, a SUPABASE_URL without scheme or host (ValueError in Supa), or
\* a usable configuration.
JobConfigs == {"bad_interval", "disabled", "bad_url", "ok"}

\* jobs with run j replaced, and with run j gone when it has returned.
JobAt(j, run) == [jobs EXCEPT ![j] = run]
JobReturned(j) == SubSeq(jobs, 1, j - 1) \o SubSeq(jobs, j + 1, Len(jobs))

\* compute_outcomes up to its first await and the answer to it (l.69-92): a
\* run starts, ends with the exception of load_settings or of Supa(...),
\* returns at once when Supabase is not configured, and else selects the
\* signals of the last 24 h; Supa.select gives [] when the request fails, and
\* with no signal the run returns.
JobSelectSignals ==
    /\ mode = "job" /\ n_jobs < MaxJobs
    /\ n_jobs' = n_jobs + 1
    /\ \E config \in JobConfigs, ok \in BOOLEAN, now \in JobNows :
           LET since == now - DaySec
               sel == IF ok THEN SelectSignals(signals, since) ELSE << >>
           IN  jobs' = IF config \in {"bad_interval", "bad_url"}
                       THEN Append(jobs, JobConfigError)
                       ELSE IF config = "disabled" \/ sel = << >> THEN jobs
                       ELSE Append(jobs, JobRun("select_existing", since, sel, << >>))
    /\ UNCHANGED << mode, policy_vars, df, signals, replay_vars, interval, outcomes, sb_outcomes,
                    run_lens, sq_df, feat_vars, fn_vars,
                    batch_vars >>

\* The answer to the signal_outcomes select (l.95-111): the signals that are
\* not in done_ids are grouped for the fetch; with none left there is no row
\* to upsert and the run returns.
JobSelectExisting ==
    /\ mode = "job"
    /\ \E j \in 1..Len(jobs), ok \in BOOLEAN :
           /\ jobs[j].pc = "select_existing"
           /\ LET run == jobs[j]
                  done_ids == IF ok THEN DoneIds(sb_outcomes, run.since) ELSE {}
                  pending == SelectSeq(run.items, LAMBDA sg : sg.id \notin done_ids)
              IN  jobs' = IF pending = << >> THEN JobReturned(j)
                          ELSE JobAt(j, JobRun("fetch", 0, pending, << >>))
    /\ UNCHANGED << mode, policy_vars, df, signals, replay_vars, interval, outcomes, sb_outcomes,
                    run_lens, sq_df, n_jobs, feat_vars, fn_vars,
                    batch_vars >>

\* The answer to _fetch_df (l.116-141): the bars the exchange has, or the
\* empty frame when fetch_klines raised or the venue is unknown.  The rows
\* are computed from it; the run ends with the exception of a lookup, returns
\* when there is no row, and else goes on to the upsert.
JobFetch ==
    /\ mode = "job"
    /\ \E j \in 1..Len(jobs), fetched \in {df, << >>}, build \in Builds :
           /\ jobs[j].pc = "fetch"
           /\ LET run == jobs[j]
                  res == compute_outcomes(fetched, interval, run.items, build)
              IN  jobs' = IF res.raised THEN JobAt(j, JobRaised)
                          ELSE IF res.rows = << >> THEN JobReturned(j)
                          ELSE JobAt(j, JobRun("upsert", 0, << >>, res.rows))
    /\ UNCHANGED << mode, policy_vars, df, signals, replay_vars, interval, outcomes, sb_outcomes,
                    run_lens, sq_df, n_jobs, feat_vars, fn_vars,
                    batch_vars >>

\* The answer to supa.upsert(..., on_conflict="signal_id,horizon_m") (l.144):
\* the rows are merged into the table, or nothing is written when the request
\* fails (Supa._post returns None); the run returns.
JobUpsert ==
    /\ mode = "job"
    /\ \E j \in 1..Len(jobs), ok \in BOOLEAN :
           /\ jobs[j].pc = "upsert"
           /\ sb_outcomes' = IF ok THEN upsert_outcomes(sb_outcomes, jobs[j].rows)
                              ELSE sb_outcomes
           /\ jobs' = JobReturned(j)
    /\ UNCHANGED << mode, policy_vars, df, signals, replay_vars, interval, outcomes,
                    run_lens, sq_df, n_jobs, feat_vars, fn_vars,
                    batch_vars >>

\* The exchange has closed one more bar: the next fetch returns the series
\* extended by it.
RefreshBars ==
    /\ mode \in {"evaluate", "job"} /\ Len(df) < MaxBarsOut
    /\ \E kind \in OutKinds : df' = Append(df, OutBar(kind, Len(df)))
    /\ UNCHANGED << mode, policy_vars, signals, replay_vars, eval_vars, feat_vars, fn_vars,
                    batch_vars >>

NextEval ==
    \/ EvalSqlite
    \/ JobSelectSignals \/ JobSelectExisting \/ JobFetch \/ JobUpsert
    \/ RefreshBars

SpecEval == InitEval /\ [][NextEval]_vars


\* ============================================================ feature rows

FeatTails == UNION { [1..n -> TailKinds] : n \in 0..MaxFeatTail }

\* The columns of a feature row.
FeatureRow(r) ==
    << r.vwap, r.bull_div, r.bear_div, r.sweep_long, r.sweep_short, r.mom_pop >>

\* A series with a flat warm-up long enough for every indicator to be defined
\* on the bars that follow it.
InitFeat ==
    /\ PolicyIdle
    /\ mode = "features"
    /\ \E tail \in FeatTails : df = Series(MomLookback, tail)
    /\ signals = << >>
    /\ pc = "apply" /\ i = 0 /\ last_alert = << >> /\ executions = << >>
    /\ n_sig = 0 /\ n_exec = 0 /\ result = "none"
    /\ min_score = 0 /\ cooldown_sec = 0 /\ supa = FALSE
    /\ EvalIdle
    /\ FeatIdle
    /\ FnIdle
    /\ BatchIdle

\* Row i of compute_signals, once on the bars up to i alone (what the
\* replayers pass) and once on the whole series.
FeatStep ==
    /\ mode = "features" /\ i < Len(df)
    /\ feat_win' = compute_signals(Window(df, i), i)
    /\ feat_full' = compute_signals(df, i)
    /\ i' = i + 1
    /\ pc' = "applied"
    /\ UNCHANGED << mode, policy_vars, df, signals, last_alert, executions, n_sig, n_exec, result,
                    min_score, cooldown_sec, supa, eval_vars, fn_vars, batch_vars >>

NextFeat == FeatStep

SpecFeat == InitFeat /\ [][NextFeat]_vars


\* ================================================================= scorer

\* The feature rows the scorer is applied to: every combination of the five
\* flags, with the close on, near and far from a positive vwap; the closes
\* 639 and 641 at the vwap 640, and 33 at the vwap 540800 / 16393, give sums
\* half-way between two thousandths.
ScoreCloses == {33, 99, 100, 101, 639, 641}
ScoreVwaps == { << 100, 1 >>, << 1001, 10 >>, << 300, 1 >>, << 640, 1 >>,
                << 540800, 16393 >> }
ScoreRows ==
    [ close : ScoreCloses, vwap : ScoreVwaps, bull_div : BOOLEAN, bear_div : BOOLEAN,
      sweep_long : BOOLEAN, sweep_short : BOOLEAN, mom_pop : BOOLEAN ]

\* basis_z values in thousandths, from -7 to 7 in steps of one half.
BasisZs == { 500 * k - 7000 : k \in 0..28 }

InitScore ==
    /\ PolicyIdle
    /\ mode = "score"
    /\ \/ \E row \in ScoreRows : fn_in = [fn |-> "score_row", row |-> row]
       \/ \E z \in BasisZs : fn_in = [fn |-> "basis_score", basis_z |-> z]
    /\ fn_out = << >>
    /\ df = << >> /\ signals = << >>
    /\ ReplayIdle /\ EvalIdle /\ FeatIdle /\ BatchIdle

\* row["score"] = float(score_row(row))
CallScoreRow ==
    /\ mode = "score" /\ pc = "idle" /\ fn_in.fn = "score_row"
    /\ fn_out' \in score_row(fn_in.row)
    /\ pc' = "returned"
    /\ UNCHANGED << mode, policy_vars, df, signals, i, last_alert, executions, n_sig, n_exec, result,
                    min_score, cooldown_sec, supa, eval_vars, feat_vars, fn_in, batch_vars >>

\* The score of a basis signal in _spot_perp_for_symbol.
CallBasisScore ==
    /\ mode = "score" /\ pc = "idle" /\ fn_in.fn = "basis_score"
    /\ fn_out' = BasisScore(fn_in.basis_z)
    /\ pc' = "returned"
    /\ UNCHANGED << mode, policy_vars, df, signals, i, last_alert, executions, n_sig, n_exec, result,
                    min_score, cooldown_sec, supa, eval_vars, feat_vars, fn_in, batch_vars >>

NextScore == CallScoreRow \/ CallBasisScore

SpecScore == InitScore /\ [][NextScore]_vars


\* ============================================================ basis engine

\* key = ts.astype("int64") // 10**9: the bar's timestamp in whole seconds.
Key(b) == b.ts \div 1000

\* merge_asof(..., direction="backward"): the last right row whose key is at
\* most x, if it is within the tolerance; NaN when there is none.
BackwardIdx(p, x, tol) ==
    LET at_most == { r \in 0..(Len(p) - 1) : Key(At(p, r)) <= x }
        r == CHOOSE m \in at_most : \A o \in at_most : o <= m
    IN  IF at_most = {} THEN NaN
        ELSE IF x - Key(At(p, r)) > tol THEN NaN ELSE r

\* merge_asof(..., direction="forward"): the first right row whose key is at
\* least x, if it is within the tolerance.
ForwardIdx(p, x, tol) ==
    LET at_least == { r \in 0..(Len(p) - 1) : Key(At(p, r)) >= x }
        r == CHOOSE m \in at_least : \A o \in at_least : m <= o
    IN  IF at_least = {} THEN NaN
        ELSE IF Key(At(p, r)) - x > tol THEN NaN ELSE r

\* A join that takes the nearest strictly earlier row only.
NearestIdx_StrictlyEarlier(p, x, tol) == BackwardIdx(p, x - 1, tol)

\* merge_asof(..., direction="nearest"): the closer of the two, the backward
\* one on a tie.
NearestIdx(p, x, tol) ==
    LET b == BackwardIdx(p, x, tol)
        f == ForwardIdx(p, x, tol)
    IN  IF b # NaN /\ f # NaN
        THEN IF x - Key(At(p, b)) <= Key(At(p, f)) - x THEN b ELSE f
        ELSE IF b # NaN THEN b ELSE f

\* _align(spot, perp, tol_sec): both frames sorted by ts, every spot row
\* joined to its nearest perp row, the spot rows without a partner dropped.
\* The result is the pair of frames (s2, p2), row k of one paired with row k
\* of the other.
align(spot, perp, tol_sec) ==
    LET s == SortByTs(spot)
        p == SortByTs(perp)
        partner(b) == NearestIdx(p, Key(b), tol_sec)
        kept == SelectSeq(s, LAMBDA b : partner(b) # NaN)
    IN  [ s |-> kept,
          p |-> [k \in 1..Len(kept) |-> At(p, partner(kept[k]))] ]

\* basis = (p.close - s.close) / (s.close + 1e-12) * 100 at row k, kept over
\* the common denominator BasisScale / 100 (exact for the spot closes 100 and
\* 101 of the bar sets used here).
BasisScale == 100 * 101
BasisPct(s, p, k) == ((At(p, k).close - At(s, k).close) * BasisScale) \div At(s, k).close

\* The sum of basis (pow = 1) or basis^2 (pow = 2) over the rows lo..hi: the
\* positive terms less the magnitudes of the negative ones.
BasisSum(s, p, lo, hi, pow) ==
    LET term(k) == IF pow = 1 THEN BasisPct(s, p, k) ELSE BasisPct(s, p, k) * BasisPct(s, p, k)
        pos == { k \in lo..hi : term(k) > 0 }
        neg == { k \in lo..hi : term(k) < 0 }
    IN  BagCardinality([k \in pos |-> term(k)]) - BagCardinality([k \in neg |-> 0 - term(k)])

\* z = (basis - mu) / sd at row k over the last z_win rows, as the triple
\* [dev, var, n] with n = z_win, dev = n * basis - sum(basis) and
\* var = n * sum(basis^2) - sum(basis)^2:  z^2 = dev^2 * (n - 1) / (n * var),
\* z has the sign of dev, and z = 0 when var = 0 (sd replaced by 1e-12, dev = 0).
BasisZ(s, p, k, z_win) ==
    LET S1 == BasisSum(s, p, k - z_win + 1, k, 1)
        S2 == BasisSum(s, p, k - z_win + 1, k, 2)
    IN  [ dev |-> z_win * BasisPct(s, p, k) - S1, var |-> z_win * S2 - S1 * S1, n |-> z_win ]

\* A threshold z_th is the ratio z_th[1] / z_th[2]: cfg.spot_perp_z, 2.7
\* unless SPOT_PERP_Z is set, and 2.5, the default of the parameter.
SpotPerpZ == << 27, 10 >>
ZThDefault == << 5, 2 >>

\* |z| >= z_th for the triple z.
ZAtLeast(z, z_th) ==
    /\ z.var > 0
    /\ ~FracLess(z.dev * z.dev, z.var, z_th[1] * z_th[1] * z.n, z_th[2] * z_th[2] * (z.n - 1))

\* rsi[k] compared with the level t: "ge", "le", "lt" or "gt".  With
\* rsi = 100 * wg / (wg + wl), rsi >= t is (100 - t) * wg >= t * wl; every
\* comparison is False while rsi is NaN.
RsiIs(f, k, op, t) ==
    LET cmp(a, b) ==
            CASE op = "ge" -> a >= b
              [] op = "le" -> a <= b
              [] op = "lt" -> a < b
              [] op = "gt" -> a > b
        level(w) ==
            /\ k >= RsiPeriod /\ (w[1] > 0 \/ w[2] > 0)
            /\ cmp((100 - t) * w[1], t * w[2])
    IN  level(WilderState(f, k))

\* dict.setdefault(key, value): the dict itself when it has the key.
SetDefault(d, key, value) ==
    IF key \in DOMAIN d THEN d
    ELSE [x \in DOMAIN d \cup {key} |-> IF x = key THEN value ELSE d[x]]

\* The length gate of compute_basis_signals.
TooFewAligned_FiftyOnly(n, z_win) == n < 50

TooFewAligned(n, z_win) == n < Max2(50, z_win + 5)

\* compute_basis_signals(spot, perp, z_win, z_th).
compute_basis_signals(spot, perp, z_win, z_th) ==
    LET \* The rules on the latest aligned bar k of s, with the basis, its z
        \* and the session vwap at that bar.
        rules(s, k, basis_pct, z, v) ==
            LET out == [ ok |-> TRUE, basis_pct |-> basis_pct, basis_z |-> z,
                         spot_close |-> At(s, k).close, spot_vwap |-> v,
                         spot_rsi |-> WilderState(s, k),
                         triggers |-> << >>, side |-> "None" ]
                perp_premium == z.dev > 0 /\ ZAtLeast(z, z_th)
                perp_discount == z.dev < 0 /\ ZAtLeast(z, z_th)
                above_vwap == GtVwap(At(s, k).close, v)
                below_vwap == LtVwap(At(s, k).close, v)
                o1 == IF perp_premium /\ above_vwap /\ RsiIs(s, k, "ge", 60)
                      THEN [out EXCEPT !.triggers = Append(@, "Perp Premium Blowoff"),
                                       !.side = "SHORT"]
                      ELSE out
                o2 == IF perp_discount /\ below_vwap /\ RsiIs(s, k, "le", 40)
                      THEN [o1 EXCEPT !.triggers = Append(@, "Perp Discount Capitulation"),
                                      !.side = "LONG"]
                      ELSE o1
                o3 == IF perp_premium /\ RsiIs(s, k, "lt", 50)
                      THEN SetDefault([o2 EXCEPT !.triggers =
                                           Append(@, "Premium + RSI Reversal Risk")],
                                      "side", "SHORT")
                      ELSE o2
                o4 == IF perp_discount /\ RsiIs(s, k, "gt", 50)
                      THEN SetDefault([o3 EXCEPT !.triggers =
                                           Append(@, "Discount + RSI Reversal Risk")],
                                      "side", "LONG")
                      ELSE o3
            IN  o4
        gated(s, p) ==
            IF TooFewAligned(Len(s), z_win)
            THEN [ok |-> FALSE, reason |-> "insufficient_aligned"]
            ELSE rules(s, Len(s) - 1, BasisPct(s, p, Len(s) - 1),
                       BasisZ(s, p, Len(s) - 1, z_win), session_vwap(s, Len(s) - 1))
        aligned(a) == gated(a.s, a.p)
    IN  aligned(align(spot, perp, 30))


\* ---------------------------------------------------- basis inputs, actions

\* One free pair of bars: the spot bar's shape, the perp close's distance from
\* the spot close, and how many seconds the perp bar is stamped after the
\* spot bar (40 s is beyond the 30 s tolerance).
BasisPairKinds == {"up", "down"} \X {0 - 1, 0, 1} \X {0, 40}

BasisTails == UNION { [1..n -> BasisPairKinds] : n \in 0..MaxBasisTail }

\* The spot series: a flat warm-up, then the spot bars of the tail.
SpotSeries(nflat, tail) ==
    [k \in 1..(nflat + Len(tail)) |->
        IF k <= nflat THEN MkBar("flat", k - 1) ELSE MkBar(tail[k - nflat][1], k - 1)]

\* The perp series: the spot bar with its close and timestamp moved.
PerpSeries(nflat, tail) ==
    [k \in 1..(nflat + Len(tail)) |->
        IF k <= nflat THEN MkBar("flat", k - 1)
        ELSE LET b == MkBar(tail[k - nflat][1], k - 1)
             IN  [b EXCEPT !.close = @ + tail[k - nflat][2],
                           !.ts = @ + tail[k - nflat][3] * 1000]]

\* Series aligned against themselves: bars 10 s or 60 s apart with closes of
\* 100 or 101.
RECURSIVE SelfSeries(_)
SelfSeries(n) ==
    IF n = 0 THEN { << >> }
    ELSE { Append(f, [ts |-> (IF f = << >> THEN 0 ELSE f[Len(f)].ts) + gap * 1000,
                      open |-> c, high |-> c, low |-> c, close |-> c, volume |-> 1])
           : f \in SelfSeries(n - 1), gap \in {10, 60}, c \in {100, 101} }

InitBasis ==
    /\ PolicyIdle
    /\ mode = "basis"
    /\ \/ \E nflat \in {48, 53}, tail \in BasisTails, z_win \in {10, 50},
              z_th \in {SpotPerpZ, ZThDefault} :
              fn_in = [fn |-> "compute_basis_signals", spot |-> SpotSeries(nflat, tail),
                       perp |-> PerpSeries(nflat, tail), z_win |-> z_win, z_th |-> z_th]
       \/ \E n \in 1..MaxAlignBars : \E f \in SelfSeries(n), tol \in {0, 30, 90} :
              fn_in = [fn |-> "align", spot |-> f, perp |-> f, tol_sec |-> tol]
    /\ fn_out = << >>
    /\ df = << >> /\ signals = << >>
    /\ ReplayIdle /\ EvalIdle /\ FeatIdle /\ BatchIdle

\* sig = compute_basis_signals(s_df, p_df, z_win=..., z_th=cfg.spot_perp_z)
CallBasis ==
    /\ mode = "basis" /\ pc = "idle" /\ fn_in.fn = "compute_basis_signals"
    /\ fn_out' = compute_basis_signals(fn_in.spot, fn_in.perp, fn_in.z_win, fn_in.z_th)
    /\ pc' = "returned"
    /\ UNCHANGED << mode, policy_vars, df, signals, i, last_alert, executions, n_sig, n_exec, result,
                    min_score, cooldown_sec, supa, eval_vars, feat_vars, fn_in, batch_vars >>

\* s, p = _align(spot, perp, tol_sec)
CallAlign ==
    /\ mode = "basis" /\ pc = "idle" /\ fn_in.fn = "align"
    /\ fn_out' = align(fn_in.spot, fn_in.perp, fn_in.tol_sec)
    /\ pc' = "returned"
    /\ UNCHANGED << mode, policy_vars, df, signals, i, last_alert, executions, n_sig, n_exec, result,
                    min_score, cooldown_sec, supa, eval_vars, feat_vars, fn_in, batch_vars >>

NextBasis == CallBasis \/ CallAlign

SpecBasis == InitBasis /\ [][NextBasis]_vars

\* ============================================================== indicators

\* find_rsi_divergences and session_vwap applied to short frames.

MaxPivotBars == 7
MaxVwapBars == 3

\* A bar of a pivot frame: a high of 100 or 101 over a low of 98 or 99.
PivotBar(k, hi, lo) ==
    [ts |-> k * BarMs, open |-> lo, high |-> hi, low |-> lo, close |-> lo, volume |-> 1]

PivotFrames(n) ==
    { [k \in 1..n |-> PivotBar(k - 1, c[k][1], c[k][2])] :
        c \in [1..n -> {100, 101} \X {98, 99}] }

\* Frames of n 1m bars that start one or two bars before midnight UTC, with
\* closes of 100 or 101 and volumes of 0, 1 or 2.
VwapFrames(n) ==
    { [k \in 1..n |->
          [ts |-> DayMs + (k - 1 - before) * BarMs, open |-> c[k][1], high |-> c[k][1],
           low |-> c[k][1], close |-> c[k][1], volume |-> c[k][2]]] :
        c \in [1..n -> {100, 101} \X {0, 1, 2}], before \in {1, 2} }

InitInd ==
    /\ PolicyIdle
    /\ mode = "indicators"
    /\ \/ \E n \in 1..MaxPivotBars : \E f \in PivotFrames(n) :
              fn_in = [fn |-> "find_rsi_divergences", df |-> f]
       \/ \E n \in 1..MaxVwapBars : \E f \in VwapFrames(n) :
              fn_in = [fn |-> "session_vwap", df |-> f]
    /\ fn_out = << >>
    /\ df = << >> /\ signals = << >>
    /\ ReplayIdle /\ EvalIdle /\ FeatIdle /\ BatchIdle

\* find_rsi_divergences up to ph_idx and pl_idx: the rows flagged _ph and _pl.
CallPivots ==
    /\ mode = "indicators" /\ pc = "idle" /\ fn_in.fn = "find_rsi_divergences"
    /\ fn_out' = [ ph_idx |-> { j \in 0..(Len(fn_in.df) - 1) : IsPivotHigh(fn_in.df, j) },
                   pl_idx |-> { j \in 0..(Len(fn_in.df) - 1) : IsPivotLow(fn_in.df, j) } ]
    /\ pc' = "returned"
    /\ UNCHANGED << mode, policy_vars, df, signals, i, last_alert, executions, n_sig, n_exec, result,
                    min_score, cooldown_sec, supa, eval_vars, feat_vars, fn_in, batch_vars >>

\* out["vwap"] = session_vwap(out): the whole column.
CallVwap ==
    /\ mode = "indicators" /\ pc = "idle" /\ fn_in.fn = "session_vwap"
    /\ fn_out' = [k \in 1..Len(fn_in.df) |-> session_vwap(fn_in.df, k - 1)]
    /\ pc' = "returned"
    /\ UNCHANGED << mode, policy_vars, df, signals, i, last_alert, executions, n_sig, n_exec, result,
                    min_score, cooldown_sec, supa, eval_vars, feat_vars, fn_in, batch_vars >>

NextInd == CallPivots \/ CallVwap

SpecInd == InitInd /\ [][NextInd]_vars


\* ======================================================= multi-symbol runs

\* BacktestEngine.run and the backfill's _worker replay a list of symbols.
\* What happens to one symbol is given with the list: whether fetch_klines
\* raises, how many bars it returns, whether the replay of those bars raises
\* (in compute_signals, score_row or a sink), and the signals its bars give:
\* n_fill is the number of signals accepted at bars that have a next bar,
\* n_last (0 or 1) the signal accepted at the last bar of the series.

MaxSymbols == 3
MaxConcurrency == 2

SymbolKinds ==
    { [fetch |-> "raises", bars |-> 250, replay |-> "ok",     n_fill |-> 1, n_last |-> 1],
      [fetch |-> "ok",     bars |-> 40,  replay |-> "ok",     n_fill |-> 0, n_last |-> 0],
      [fetch |-> "ok",     bars |-> 250, replay |-> "ok",     n_fill |-> 0, n_last |-> 0],
      [fetch |-> "ok",     bars |-> 250, replay |-> "ok",     n_fill |-> 1, n_last |-> 1],
      [fetch |-> "ok",     bars |-> 250, replay |-> "ok",     n_fill |-> 2, n_last |-> 0],
      [fetch |-> "ok",     bars |-> 250, replay |-> "raises", n_fill |-> 0, n_last |-> 0] }

SymbolLists == UNION { [1..n -> SymbolKinds] : n \in 1..MaxSymbols }

\* A fetch without the try/except: the adapter's exception goes on to the caller.
fetch_NoCatch(sym) ==
    [raised |-> sym.fetch = "raises", n |-> sym.bars]

\* _fetch / _fetch_df: `except Exception: kl = []`, then to_dataframe(kl); the
\* frame is kept by its length n.
fetch(sym) ==
    [raised |-> FALSE, n |-> IF sym.fetch = "raises" THEN 0 ELSE sym.bars]

\* run_symbol (m = "run") and backfill_symbol (m = "worker") for one symbol:
\* the value returned, or raised = TRUE when an exception leaves the call.
\* run_symbol's loop is range(50, len(df)): the last bar is evaluated, its
\* signal is counted and has no execution (`if i+1 < len(df)`).
\* backfill_symbol's loop is range(start_i, n - 1): the last bar is never
\* evaluated, and every signal counted is followed by its execution.
replay_symbol(m, sym) ==
    LET d == fetch(sym)
        zero == IF m = "run" THEN [signals |-> 0, executions |-> 0]
                ELSE [signals |-> 0, executions |-> 0, outcomes |-> 0]
        too_few == IF m = "run" THEN EngineTooFew(d.n) ELSE BackfillTooFew(d.n)
    IN  IF d.raised THEN [raised |-> TRUE]
        ELSE IF too_few THEN [raised |-> FALSE, value |-> zero]
        ELSE IF sym.replay = "raises" THEN [raised |-> TRUE]
        ELSE [raised |-> FALSE,
              value |-> IF m = "run"
                        THEN [signals |-> sym.n_fill + sym.n_last,
                              executions |-> sym.n_fill]
                        ELSE [signals |-> sym.n_fill, executions |-> sym.n_fill,
                              outcomes |-> Len(compute_outcomes_sqlite_rows_nodf)]]

\* sum(x for x, _ in totals) / totals[k] += r.get(k, 0) over the results rs.
Total(rs, key) ==
    LET pos == { k \in DOMAIN rs : rs[k][key] > 0 }
    IN  BagCardinality([k \in pos |-> rs[k][key]])

InitBatch ==
    /\ PolicyIdle
    /\ mode \in {"run", "worker"}
    /\ symbols \in SymbolLists
    /\ b_done = {} /\ b_results = << >> /\ b_status = "running"
    /\ b_active = {} /\ b_failed = {} /\ b_cancelled = {}
    /\ concurrency \in IF mode = "worker" THEN 1..MaxConcurrency ELSE {0}
    /\ df = << >> /\ signals = << >>
    /\ ReplayIdle /\ EvalIdle /\ FeatIdle /\ FnIdle

\* The replay of symbol k ends: its value is kept, or it raised.  In run()
\* the exception leaves the list comprehension at once; in _worker it is set
\* on the task, for gather to hand on to _worker (the first one only).
EndSymbol(k) ==
    LET r == replay_symbol(mode, symbols[k])
    IN  IF r.raised
        THEN /\ b_failed' = b_failed \cup {k}
             /\ b_status' = IF mode = "run" THEN "raised" ELSE b_status
             /\ UNCHANGED << b_done, b_results >>
        ELSE /\ b_done' = b_done \cup {k}
             /\ b_results' = [x \in b_done \cup {k} |-> IF x = k THEN r.value ELSE b_results[x]]
             /\ UNCHANGED << b_status, b_failed >>

\* One element of `[await self.run_symbol(s) for s in self.symbols]`: the
\* symbols one after the other.
RunAwaitSymbol ==
    /\ mode = "run" /\ b_status = "running"
    /\ Cardinality(b_done) < Len(symbols)
    /\ EndSymbol(Cardinality(b_done) + 1)
    /\ UNCHANGED << mode, policy_vars, df, signals, replay_vars, eval_vars, feat_vars, fn_vars, symbols,
                    b_active, concurrency, b_cancelled >>

\* return dict(signals=sum(...), executions=sum(...))
RunReturn ==
    /\ mode = "run" /\ b_status = "running"
    /\ Cardinality(b_done) = Len(symbols)
    /\ b_status' = "returned"
    /\ result' = [signals |-> Total(b_results, "signals"),
                  executions |-> Total(b_results, "executions")]
    /\ UNCHANGED << mode, policy_vars, df, signals, min_score, cooldown_sec, supa, pc, i, last_alert,
                    executions, n_sig, n_exec, eval_vars, feat_vars, fn_vars,
                    symbols, b_done, b_results, b_active, concurrency, b_failed, b_cancelled >>

\* `async with sem`: a permit of asyncio.Semaphore(concurrency) is free.
SemaphoreFree == Cardinality(b_active) < concurrency

\* The run_one tasks are alive: from gather's creation of them until
\* asyncio.run has ended.  _worker leaving with the exception of one task
\* does not stop the others.
TasksAlive == b_status \in {"running", "raised"}

\* The symbols whose run_one task has not got its permit yet.
Waiting == (1..Len(symbols)) \ (b_active \cup b_done \cup b_failed \cup b_cancelled)

\* One run_one(sym) task of `asyncio.gather(*(run_one(s) for s in symbols))`
\* acquires the semaphore and starts backfill_symbol.  gather makes one task
\* for each element of symbols, in list order; the event loop steps them in
\* that order and the semaphore wakes its waiters first-in first-out, so the
\* permits go to the symbols in list order.  A task that raised does not stop
\* the others, and neither does _worker leaving with its exception: a waiting
\* task still gets the permit the failed one released.
WorkerTaskStarts ==
    /\ mode = "worker" /\ TasksAlive
    /\ SemaphoreFree
    /\ Waiting # {}
    /\ LET k == CHOOSE w \in Waiting : \A o \in Waiting : w <= o
       IN  b_active' = b_active \cup {k}
    /\ UNCHANGED << mode, policy_vars, df, signals, replay_vars, eval_vars, feat_vars, fn_vars, symbols,
                    b_done, b_results, b_status, concurrency, b_failed, b_cancelled >>

\* The backfill_symbol of a task ends, with a value or an exception, and its
\* permit is released; the tasks end in any order, before or after _worker
\* has left with the exception of another one.
WorkerTaskEnds ==
    /\ mode = "worker" /\ TasksAlive
    /\ \E k \in b_active : EndSymbol(k) /\ b_active' = b_active \ {k}
    /\ UNCHANGED << mode, policy_vars, df, signals, replay_vars, eval_vars, feat_vars, fn_vars, symbols,
                    concurrency, b_cancelled >>

\* `await asyncio.gather(...)` without return_exceptions: the first exception
\* of a task is raised in _worker, which leaves without summing, and main()
\* with it.  gather does not cancel the other tasks.
WorkerRaises ==
    /\ mode = "worker" /\ b_status = "running"
    /\ b_failed # {}
    /\ b_status' = "raised"
    /\ UNCHANGED << mode, policy_vars, df, signals, replay_vars, eval_vars, feat_vars, fn_vars, symbols,
                    b_done, b_results, b_active, concurrency, b_failed, b_cancelled >>

\* asyncio.run(main()) after main() raised: every task that has not ended is
\* cancelled, the one in the middle of its backfill_symbol (CancelledError is
\* not an Exception, no handler of the replay catches it) and the one still
\* waiting for a permit, and the loop is closed.  A replay is cancelled at
\* one of its awaits; what it stored before that stays stored, its counts are
\* returned to nobody.
AsyncioRunEnds ==
    /\ mode = "worker" /\ b_status = "raised"
    /\ b_status' = "closed"
    /\ b_cancelled' = b_active \cup Waiting
    /\ b_active' = {}
    /\ UNCHANGED << mode, policy_vars, df, signals, replay_vars, eval_vars, feat_vars, fn_vars, symbols,
                    b_done, b_results, concurrency, b_failed >>

\* gather has every result: the totals are summed and returned.
WorkerReturn ==
    /\ mode = "worker" /\ b_status = "running"
    /\ b_done = 1..Len(symbols)
    /\ b_status' = "returned"
    /\ result' = [signals |-> Total(b_results, "signals"),
                  executions |-> Total(b_results, "executions"),
                  outcomes |-> Total(b_results, "outcomes")]
    /\ UNCHANGED << mode, policy_vars, df, signals, min_score, cooldown_sec, supa, pc, i, last_alert,
                    executions, n_sig, n_exec, eval_vars, feat_vars, fn_vars,
                    symbols, b_done, b_results, b_active, concurrency, b_failed, b_cancelled >>

NextBatch ==
    \/ RunAwaitSymbol \/ RunReturn
    \/ WorkerTaskStarts \/ WorkerTaskEnds \/ WorkerRaises \/ WorkerReturn
    \/ AsyncioRunEnds

SpecBatch == InitBatch /\ [][NextBatch]_vars


\* ==================================================== evaluator functions

\* _nearest_index, the horizon's bar count, to_dataframe and _calc_window
\* applied to short inputs.

MaxLookupBars == 3

\* Bar times of a lookup frame: 1 s to 4 s, and signal times on and between them.
LookupTimes == { k * 1000 : k \in 1..4 }
LookupSignalTimes == { k * 500 : k \in 1..9 }

\* Frames of n flat bars in ascending (not necessarily strictly) ts order.
LookupFrames(n) ==
    { [k \in 1..n |-> [ts |-> t[k], open |-> 100, high |-> 100, low |-> 100,
                       close |-> 100, volume |-> 1]] :
        t \in { u \in [1..n -> LookupTimes] : \A k \in 1..(n - 1) : u[k] <= u[k + 1] } }

MaxKlines == 3

\* A raw kline value that is not a number (text that pd.to_numeric cannot parse).
NonNumeric == 0 - 2

\* pd.to_numeric(v, errors="coerce"): NaN for a value that is not a number.
to_numeric(v) == IF v = NonNumeric THEN NaN ELSE v

\* to_dataframe(klines): the rows in the order given, the OHLCV columns
\* coerced to numbers, then dropna() and reset_index(drop=True).
to_dataframe(klines) ==
    LET coerced == [k \in 1..Len(klines) |->
                       [ts |-> klines[k].ts,
                        open |-> to_numeric(klines[k].open), high |-> to_numeric(klines[k].high),
                        low |-> to_numeric(klines[k].low), close |-> to_numeric(klines[k].close),
                        volume |-> to_numeric(klines[k].volume)]]
        notna(r) == /\ r.open # NaN /\ r.high # NaN /\ r.low # NaN
                    /\ r.close # NaN /\ r.volume # NaN
    IN  SelectSeq(coerced, notna)

\* Raw kline rows as an exchange adapter may hand them over: times of 1 s to
\* 3 s in any order, a price of 100 with a close that may not be a number.
Klines(n) ==
    { [k \in 1..n |-> [ts |-> c[k][1] * 1000, open |-> 100, high |-> 100, low |-> 100,
                       close |-> c[k][2], volume |-> 1]] :
        c \in [1..n -> (1..3) \X {100, NonNumeric}] }

MaxWindowBars == 3

\* Well-formed bars (low <= open, close <= high, positive prices): rising,
\* falling and flat ones around 100, and one level above and below them.
WindowShapes ==
    { [open |-> 100, high |-> 102, low |-> 99, close |-> 101, volume |-> 1],
      [open |-> 101, high |-> 103, low |-> 100, close |-> 100, volume |-> 1],
      [open |-> 100, high |-> 100, low |-> 100, close |-> 100, volume |-> 1],
      [open |-> 104, high |-> 105, low |-> 103, close |-> 104, volume |-> 1],
      [open |-> 97, high |-> 98, low |-> 96, close |-> 97, volume |-> 1] }

\* Frames of n well-formed 1m bars.
WindowFrames(n) ==
    { [k \in 1..n |-> [ts |-> k * BarMs, open |-> c[k].open, high |-> c[k].high,
                       low |-> c[k].low, close |-> c[k].close, volume |-> c[k].volume]] :
        c \in [1..n -> WindowShapes] }

\* _VALID_INTERVALS of config.py.
ValidIntervals == {"1m", "3m", "5m", "15m", "1h"}

InitFn ==
    /\ PolicyIdle
    /\ mode = "functions"
    /\ \/ \E n \in 0..MaxLookupBars : \E f \in LookupFrames(n) : \E t \in LookupSignalTimes :
          \E build \in Builds :
              fn_in = [fn |-> "_nearest_index", df |-> f, ts_ms |-> t, build |-> build]
       \/ \E iv \in ValidIntervals : \E n \in 1..Len(HorizonsJob) :
              fn_in = [fn |-> "bars", interval |-> iv, h |-> HorizonsJob[n]]
       \/ \E n \in 0..MaxKlines : \E kl \in Klines(n) :
              fn_in = [fn |-> "to_dataframe", klines |-> kl]
       \/ \E n \in 1..MaxWindowBars : \E f \in WindowFrames(n) :
          \E k \in 0..(n - 1), b \in {1, 2}, sd \in {"LONG", "SHORT"} :
              fn_in = [fn |-> "_calc_window", df |-> f, i_entry |-> k, bars |-> b,
                       side |-> sd, entry |-> At(f, k).open]
    /\ fn_out = << >>
    /\ df = << >> /\ signals = << >>
    /\ ReplayIdle /\ EvalIdle /\ FeatIdle /\ BatchIdle

\* i0 = _nearest_index(df, ts_ms), by the backtest's search and by the job's
\* scan, on a frame of to_dataframe.
CallNearestIndex ==
    /\ mode = "functions" /\ pc = "idle" /\ fn_in.fn = "_nearest_index"
    /\ fn_out' = [ binary |-> NearestIndexBinary(fn_in.df, fn_in.ts_ms),
                   linear |-> NearestIndexLinear(fn_in.df, fn_in.ts_ms, fn_in.build) ]
    /\ pc' = "returned"
    /\ UNCHANGED << mode, policy_vars, df, signals, i, last_alert, executions, n_sig, n_exec, result,
                    min_score, cooldown_sec, supa, eval_vars, feat_vars, fn_in, batch_vars >>

\* The bars walked forward for horizon h on bars of the given interval:
\* `bars` as _calc_window receives it, and max(bars, 1) of the job.
CallBars ==
    /\ mode = "functions" /\ pc = "idle" /\ fn_in.fn = "bars"
    /\ fn_out' = [ metrics |-> BarsMetrics(fn_in.h, fn_in.interval),
                   job |-> Max2(BarsJob(fn_in.h, fn_in.interval), 1) ]
    /\ pc' = "returned"
    /\ UNCHANGED << mode, policy_vars, df, signals, i, last_alert, executions, n_sig, n_exec, result,
                    min_score, cooldown_sec, supa, eval_vars, feat_vars, fn_in, batch_vars >>

\* df = to_dataframe(kl)
CallToDataframe ==
    /\ mode = "functions" /\ pc = "idle" /\ fn_in.fn = "to_dataframe"
    /\ fn_out' = to_dataframe(fn_in.klines)
    /\ pc' = "returned"
    /\ UNCHANGED << mode, policy_vars, df, signals, i, last_alert, executions, n_sig, n_exec, result,
                    min_score, cooldown_sec, supa, eval_vars, feat_vars, fn_in, batch_vars >>

\* ret, mfe, mae, exit_price = _calc_window(df, i_entry, bars, side, entry)
CallCalcWindow ==
    /\ mode = "functions" /\ pc = "idle" /\ fn_in.fn = "_calc_window"
    /\ fn_out' = CalcWindow(fn_in.df, fn_in.i_entry, fn_in.bars, fn_in.side, fn_in.entry)
    /\ pc' = "returned"
    /\ UNCHANGED << mode, policy_vars, df, signals, i, last_alert, executions, n_sig, n_exec,
                    result, min_score, cooldown_sec, supa, eval_vars, feat_vars, fn_in, batch_vars >>

NextFn == CallNearestIndex \/ CallBars \/ CallToDataframe \/ CallCalcWindow

SpecFn == InitFn /\ [][NextFn]_vars

\* ============================================================ trading policy

\* TradingPolicy.should_trade and the cooldown cache COOLDOWNS behind it.
\* Scores are in thousandths, time.time() in seconds.

MaxTicks == 3

\* The clock moves in steps of TickSec.
TickSec == 300

\* min_score_event, min_score_rsi, min_score_momo; cd_event_s, cd_rsi_s,
\* cd_momo_s; flip_bonus; allow_momentum (the defaults).
MinScoreEvent == 5500
MinScoreRsi == 6000
MinScoreMomo == 4200
CdEventS == 180
CdRsiS == 600
CdMomoS == 900
FlipBonus == 750
AllowMomentum == FALSE

\* _CooldownCache.ok on the cache `last` at time `now`: the value returned and
\* the cache afterwards.
CooldownOk(last, now, key, min_gap_s, new_side, new_score, flip_bonus) ==
    LET stored == [k \in DOMAIN last \cup {key} |->
                      IF k = key THEN << now, new_side, new_score >> ELSE last[k]]
    IN  IF key \notin DOMAIN last THEN [ret |-> TRUE, last |-> stored]
        ELSE IF now - last[key][1] < min_gap_s THEN [ret |-> FALSE, last |-> last]
        ELSE IF last[key][2] # new_side /\ new_score < last[key][3] + flip_bonus
        THEN [ret |-> FALSE, last |-> last]
        ELSE [ret |-> TRUE, last |-> stored]

\* f"{bucket}::{sym}"
PolicyKey(bucket, sym) == << bucket, sym >>

\* The calls made: the bucket of the reason text (built from the triggers, so
\* it is "momo" when they hold "Momentum Pop"), whether the VWAP and RSI rails
\* let the signal through, the symbol, the side and the score.
PolicyCalls ==
    { c \in [ bucket : {"event", "rsi", "momo", "other"}, momentum : BOOLEAN,
              rails : BOOLEAN, symbol : {"BTCUSDT"}, side : {"LONG", "SHORT"},
              score : {5500, 6250, 7000} ] :
        (c.bucket = "momo") <=> c.momentum }

\* should_trade(...) for the call c on the cache `last` at time `now`: the
\* value returned, the cache afterwards, and whether COOLDOWNS.ok was called.
should_trade(last, now, c) ==
    LET no == [ret |-> FALSE, last |-> last, cached |-> FALSE]
        called(r) == [ret |-> r.ret, last |-> r.last, cached |-> TRUE]
        gate(threshold, cd) ==
            IF c.score < threshold THEN no
            ELSE called(CooldownOk(last, now, PolicyKey(c.bucket, c.symbol), cd, c.side,
                                   c.score, FlipBonus))
    IN  IF c.momentum /\ ~AllowMomentum THEN no
        ELSE IF ~c.rails THEN no
        ELSE IF c.bucket = "event" THEN gate(MinScoreEvent, CdEventS)
        ELSE IF c.bucket = "rsi" THEN gate(MinScoreRsi, CdRsiS)
        ELSE IF c.bucket = "momo" THEN gate(MinScoreMomo, CdMomoS)
        ELSE no

InitPolicy ==
    /\ mode = "policy"
    /\ PolicyIdle
    /\ df = << >> /\ signals = << >>
    /\ ReplayIdle /\ EvalIdle /\ FeatIdle /\ FnIdle /\ BatchIdle

\* should_trade_dict(sig) for the call c: the bucket's threshold and the
\* cache are consulted with no momentum gate and no rail.
should_trade_dict(last, now, c) ==
    LET no == [ret |-> FALSE, last |-> last, cached |-> FALSE]
        called(r) == [ret |-> r.ret, last |-> r.last, cached |-> TRUE]
        gate(threshold, cd) ==
            IF c.score < threshold THEN no
            ELSE called(CooldownOk(last, now, PolicyKey(c.bucket, c.symbol), cd, c.side,
                                   c.score, FlipBonus))
    IN  IF c.bucket = "event" THEN gate(MinScoreEvent, CdEventS)
        ELSE IF c.bucket = "rsi" THEN gate(MinScoreRsi, CdRsiS)
        ELSE IF c.bucket = "momo" THEN gate(MinScoreMomo, CdMomoS)
        ELSE no

\* What is kept of a call c of the entry point `call`: r is what it returned,
\* << >> when it raised.
PolicyReturn(call, c, r) ==
    [ call |-> call, key |-> PolicyKey(c.bucket, c.symbol), side |-> c.side,
      score |-> c.score, raised |-> r = << >>,
      ok |-> IF r = << >> THEN FALSE ELSE r[1].ret,
      cached |-> IF r = << >> THEN FALSE ELSE r[1].cached,
      prev |-> IF PolicyKey(c.bucket, c.symbol) \in DOMAIN p_last
               THEN << p_last[PolicyKey(c.bucket, c.symbol)] >>
               ELSE << >> ]

\* POLICY.should_trade(signal_type=..., side=..., score=..., rsi=..., vwap=...,
\* close=..., triggers=..., symbol=..., reason=...): a call with the keyword
\* arguments the method takes.
ShouldTrade ==
    /\ mode = "policy"
    /\ \E c \in PolicyCalls :
           LET r == should_trade(p_last, p_now, c)
           IN  /\ p_last' = r.last
               /\ p_ret' = PolicyReturn("should_trade", c, << r >>)
    /\ UNCHANGED << mode, df, signals, replay_vars, eval_vars, feat_vars, fn_vars, batch_vars,
                    p_now >>

\* The calls made of the dict entry point and by the live worker: every
\* bucket and side, at the highest score.
EntryCalls == { c \in PolicyCalls : c.rails /\ c.score = 7000 }

\* POLICY.should_trade_dict(sig), the dict entry point.
ShouldTradeDict ==
    /\ mode = "policy"
    /\ \E c \in EntryCalls :
           LET r == should_trade_dict(p_last, p_now, c)
           IN  /\ p_last' = r.last
               /\ p_ret' = PolicyReturn("should_trade_dict", c, << r >>)
    /\ UNCHANGED << mode, df, signals, replay_vars, eval_vars, feat_vars, fn_vars, batch_vars,
                    p_now >>

\* dec = POLICY.should_trade(**ctx) of the live worker: ctx holds venue,
\* interval and ts, which should_trade does not take, so the call raises
\* TypeError before the body runs and the cache is not touched.
MainShouldTrade ==
    /\ mode = "policy"
    /\ \E c \in EntryCalls : p_ret' = PolicyReturn("main", c, << >>)
    /\ UNCHANGED << mode, df, signals, replay_vars, eval_vars, feat_vars, fn_vars, batch_vars,
                    p_now, p_last >>

\* Time passes between two calls.
Tick ==
    /\ mode = "policy" /\ p_now < MaxTicks * TickSec
    /\ p_now' = p_now + TickSec
    /\ UNCHANGED << mode, df, signals, replay_vars, eval_vars, feat_vars, fn_vars, batch_vars,
                    p_last, p_ret >>

NextPolicy == ShouldTrade \/ ShouldTradeDict \/ MainShouldTrade \/ Tick

SpecPolicy == InitPolicy /\ [][NextPolicy]_vars

\* ================================================================ claims

\* The bars a replay has evaluated so far: the loop indexes below i.  JustDone
\* holds the bar of the last completed iteration (checking it in every state
\* covers every evaluated bar, since signals are only appended).
FirstIndex == IF mode = "engine" THEN MinBarsEngine ELSE StartIndex(Len(df))
Evaluated == IF pc = "start" THEN {} ELSE { k \in FirstIndex..(i - 1) : InRange(df, k) }
JustDone == IF pc = "start" \/ i <= FirstIndex THEN {} ELSE {i - 1}

\* The row, triggers and score the replay computes at bar k, from bars[0..k].
RowAt(k) == compute_signals(Window(df, k), k)
TriggersAt(k) ==
    IF mode = "engine" THEN EngineTriggers(RowAt(k)) ELSE BackfillTriggers(RowAt(k))

SignalBars == { signals[n].bar : n \in 1..Len(signals) }

Replaying == mode \in {"engine", "backfill"}

\* C1: the feature row at index i computed on bars[0..i] alone is identical to
\* the row at index i computed on a longer series that extends those bars.
C1_NoLookahead ==
    (mode = "features" /\ pc = "applied") =>
        FeatureRow(feat_win) = FeatureRow(feat_full)

\* C2: any two signals a replay accepted for its (venue, symbol) key are at
\* least cooldown_sec seconds apart in bar time, and a bar that passed the
\* quality gate less than cooldown_sec after the signal accepted before it
\* was not emitted.
C2_CooldownSpacing ==
    Replaying =>
        /\ \A a, b \in 1..Len(signals) :
              a < b => signals[b].ts - signals[a].ts >= cooldown_sec
        /\ \A k \in JustDone : \A n \in 1..Len(signals) :
              /\ signals[n].bar < k
              /\ Timestamp(At(df, k)) - signals[n].ts < cooldown_sec
              => k \notin SignalBars

\* C2 witness: two signals were accepted exactly cooldown_sec apart, and a
\* bar that passed the gate inside the cooldown of the first was skipped.
C2_Witness ==
    /\ Replaying
    /\ Len(signals) = 2
    /\ signals[2].ts - signals[1].ts = cooldown_sec
    /\ \E k \in Evaluated :
          /\ signals[1].bar < k /\ k < signals[2].bar
          /\ \E sc \in score_row(RowAt(k)) : PassesGate(TriggersAt(k), sc, min_score)
          /\ k \notin SignalBars

\* C3: every signal a replay emitted was computed with a non-empty trigger
\* list and a score of at least the minimum score; the bars whose trigger
\* list is empty or whose score is below the threshold carry no signal.
C3_ThresholdGate ==
    Replaying =>
        /\ \A n \in 1..Len(signals) :
              /\ signals[n].triggers # << >>
              /\ signals[n].score >= min_score
              /\ signals[n].triggers = TriggersAt(signals[n].bar)
              /\ signals[n].score \in score_row(RowAt(signals[n].bar))
        /\ \A k \in JustDone :
              (TriggersAt(k) = << >> \/ \A sc \in score_row(RowAt(k)) : sc < min_score)
              => k \notin SignalBars

\* C3 witness: a signal was emitted, one evaluated bar had triggers but a
\* score below the threshold, another had no trigger, and neither carries a
\* signal.
C3_Witness ==
    /\ Replaying
    /\ Len(signals) >= 1
    /\ \E k \in Evaluated :
          /\ TriggersAt(k) # << >>
          /\ \A sc \in score_row(RowAt(k)) : sc < min_score
          /\ k \notin SignalBars
    /\ \E k \in Evaluated : TriggersAt(k) = << >> /\ k \notin SignalBars

ExecsOf(sid) == { n \in 1..Len(executions) : executions[n].sig = sid }

\* C4: a signal accepted at bar i has its execution, priced at the open of
\* bar i+1 and stamped with the time of bar i+1, exactly when bar i+1 exists;
\* every execution belongs to exactly one signal, a signal has at most one,
\* and executions never outnumber signals.
C4_NextBarFill ==
    Replaying =>
        /\ Len(executions) <= Len(signals)
        /\ n_exec <= n_sig
        /\ n_sig = Len(signals) /\ n_exec = Len(executions)
        /\ \A n \in 1..Len(executions) :
              LET e == executions[n]
              IN  /\ Cardinality({ m \in 1..Len(signals) : signals[m].id = e.sig }) = 1
                  /\ \A m \in 1..Len(signals) :
                        signals[m].id = e.sig =>
                            /\ e.bar = signals[m].bar + 1
                            /\ InRange(df, e.bar)
                            /\ e.price = At(df, signals[m].bar + 1).open
                            /\ e.ts = Timestamp(At(df, signals[m].bar + 1))
        /\ \A m \in 1..Len(signals) :
              Cardinality(ExecsOf(signals[m].id)) =
                  IF InRange(df, signals[m].bar + 1) THEN 1 ELSE 0

\* C5: a replay over fewer bars than its minimum (50 for the engine, 200 for
\* the backfill) goes from its start straight to its return, returns zero
\* counts and inserts no signal and no execution.
C5_InsufficientBars ==
    (Replaying /\ Len(df) < (IF mode = "engine" THEN MinBarsEngine ELSE MinBarsBackfill)) =>
        /\ pc \in {"start", "done"}
        /\ signals = << >>
        /\ executions = << >>
        /\ pc = "done" =>
              /\ result.signals = 0
              /\ result.executions = 0
              /\ mode = "backfill" => result.outcomes = 0

\* C5 witness: both replayers returned on a series shorter than their
\* minimum whose last bars would have fired triggers.
C5_Witness ==
    /\ Replaying
    /\ pc = "done"
    /\ Len(df) > 40
    /\ Len(df) < MinBarsEngine
    /\ BackfillTriggers(compute_signals(df, Len(df) - 1)) # << >>

\* ------------------------------------------------------- outcome evaluator

Evaluating == mode \in {"evaluate", "job"}

RowsOf(table) == { table[n] : n \in 1..Len(table) }

Horizons(seq) == { seq[n] : n \in 1..Len(seq) }

SignalRows == { signals[n] : n \in 1..Len(signals) }

LastTs(f) == At(f, Len(f) - 1).ts

\* The job runs that have not returned.
JobRuns == { jobs[n] : n \in 1..Len(jobs) }

EntryAfterSignalBar(r) ==
    /\ r.i_entry > r.i0
    /\ r.entry_price = At(df, r.i_entry).open

\* C6: every outcome row, of either evaluator, takes its entry price from a
\* bar with a strictly greater index than the bar located for the signal's
\* timestamp, and the entry price is that later bar's open.
C6_EntryAfterSignalBar ==
    Evaluating =>
        /\ \A r \in RowsOf(outcomes) : EntryAfterSignalBar(r)
        /\ \A r \in RowsOf(sb_outcomes) : EntryAfterSignalBar(r)

NoDupKeys(table) ==
    \A m, n \in 1..Len(table) : SameKey(table[m], table[n]) => m = n

Values(r) == << r.entry_price, r.exit_price, r.ret, r.max_fav, r.max_adv >>

\* What one run of compute_outcomes_from_df must do to the SQLite table:
\* no key twice; nothing changes when the bars are those of the previous run;
\* every computed row is in the table with its new values, the rows of other
\* keys are kept, and the table grows only by the keys that were not in it.
SqliteRunIsUpsert ==
    LET out == compute_outcomes_from_df(df, interval, signals)
        fresh == { r \in RowsOf(out) : \A q \in RowsOf(outcomes) : ~SameKey(q, r) }
    IN  /\ NoDupKeys(outcomes')
        /\ sq_df = df => /\ Len(outcomes') = Len(outcomes)
                         /\ \A n \in 1..Len(outcomes) :
                                /\ SameKey(outcomes'[n], outcomes[n])
                                /\ Values(outcomes'[n]) = Values(outcomes[n])
        /\ \A r \in RowsOf(out) : r \in RowsOf(outcomes')
        /\ \A q \in RowsOf(outcomes) :
               \/ q \in RowsOf(outcomes')
               \/ \E r \in RowsOf(out) : SameKey(q, r)
        /\ Len(outcomes') = Len(outcomes) + Cardinality(fresh)

\* C7: the outcome stores never hold two rows for one (signal_id, horizon_m);
\* a run on the bars of the previous run leaves the row count and every row's
\* values unchanged; a run on refreshed bars replaces the values of existing
\* rows and adds rows only for keys that had none.
C7_IdempotentUpsert ==
    /\ [](Evaluating => NoDupKeys(outcomes) /\ NoDupKeys(sb_outcomes))
    /\ [][(Evaluating /\ run_lens' # run_lens) => SqliteRunIsUpsert]_vars

\* Three runs: the second on the bars of the first, the third on refreshed
\* bars, whose rows hold the refreshed window's values under the old keys.
C7_Witness ==
    /\ Evaluating /\ Len(run_lens) = 3
    /\ run_lens[1] = run_lens[2] /\ run_lens[2] < run_lens[3]
    /\ Len(outcomes) = Len(HorizonsMetrics) * Len(signals)
    /\ Len(signals) = 2
    /\ \E r \in RowsOf(outcomes) : r.i_exit = run_lens[3] - 1 /\ r.i_exit > run_lens[1] - 1

NonNegative(r) == r.max_fav.num >= 0 /\ r.max_adv.num >= 0

\* C8: every outcome row of either evaluator has max_fav >= 0 and
\* max_adv >= 0.
C8_ExcursionsNonNegative ==
    Evaluating =>
        /\ \A r \in RowsOf(outcomes) : NonNegative(r)
        /\ \A r \in RowsOf(sb_outcomes) : NonNegative(r)

\* The exit of a row lies between its entry and the last bar of the series it
\* was computed on, is the last bar when the horizon runs past it and
\* entry + bars otherwise, and the exit price is that bar's close.
ExitClamped(r, bars) ==
    LET last == r.n_bars - 1
    IN  /\ r.i_entry <= r.i_exit /\ r.i_exit <= last
        /\ r.i_exit = IF r.i_entry + bars > last THEN last ELSE r.i_entry + bars
        /\ r.exit_price = At(df, r.i_exit).close

\* C9: a horizon that runs past the last bar exits on the last bar; the exit
\* index is always within [entry index, last index]; and every signal whose
\* bar was located has a row for every horizon, however long the horizon: in
\* the table after a run of compute_outcomes_from_df, and among the rows a
\* job run has computed.
C9_HorizonClamping ==
    Evaluating =>
        /\ \A r \in RowsOf(outcomes) :
               ExitClamped(r, BarsMetrics(r.horizon_m, interval))
        /\ \A r \in RowsOf(sb_outcomes) :
               ExitClamped(r, Max2(BarsJob(r.horizon_m, interval), 1))
        /\ run_lens # << >> =>
               \A sg \in SignalRows : NearestIndexBinary(sq_df, TsMs(sg.ts)) >= 0 =>
                   \A h \in Horizons(HorizonsMetrics) :
                       \E r \in RowsOf(outcomes) : r.signal_id = sg.id /\ r.horizon_m = h
        /\ \A run \in JobRuns : \A r \in RowsOf(run.rows) :
               /\ ExitClamped(r, Max2(BarsJob(r.horizon_m, interval), 1))
               /\ \A h \in Horizons(HorizonsJob) :
                      \E q \in RowsOf(run.rows) :
                          q.signal_id = r.signal_id /\ q.horizon_m = h

\* On 15-minute bars a signal on the first of three bars has a 15-minute row
\* that exits where the horizon ends and a 60-minute row clamped to the last
\* bar.
C9_Witness ==
    /\ Evaluating /\ interval = "15m" /\ Len(sq_df) = 3
    /\ \E r \in RowsOf(outcomes) :
           r.horizon_m = 60 /\ r.i_entry + BarsMetrics(60, interval) > 2 /\ r.i_exit = 2
    /\ \E r \in RowsOf(outcomes) :
           r.horizon_m = 15 /\ r.i_entry = 1 /\ r.i_exit = 2

\* The signal of a job row is later than the last bar of the series the row
\* was computed on.
LateRow(r) == TsMs(r.ts) > At(df, r.n_bars - 1).ts

\* C10: for a signal later than the last bar of the evaluated series the index
\* lookup gives -1 and the evaluator writes no row of it at any horizon, while
\* the signals that were located have their rows: in the table after a run of
\* compute_outcomes_from_df, and in the job, no run of which ends with an
\* exception or computes a row for a late signal.
C10_LateSignalSkipped ==
    Evaluating =>
        /\ run_lens # << >> =>
               \A sg \in SignalRows :
                   IF TsMs(sg.ts) > LastTs(sq_df)
                   THEN /\ NearestIndexBinary(sq_df, TsMs(sg.ts)) = 0 - 1
                        /\ \A r \in RowsOf(outcomes) : r.signal_id # sg.id
                   ELSE \E r \in RowsOf(outcomes) : r.signal_id = sg.id
        /\ \A run \in JobRuns :
               /\ run.pc # "raised"
               /\ \A r \in RowsOf(run.rows) : ~LateRow(r)
        /\ \A r \in RowsOf(sb_outcomes) : ~LateRow(r)

\* ------------------------------------------------------------------ scorer

Scored == mode = "score" /\ pc = "returned"

\* C11: score_row returns a value in [0, 10] for every combination of the
\* five flags and every positive close and vwap, and the basis score
\* 2.0 + min(|basis_z|, 5.0) lies in [2.0, 7.0].
C11_ScoreBounded ==
    Scored =>
        IF fn_in.fn = "score_row"
        THEN 0 <= fn_out /\ fn_out <= 10000
        ELSE 2000 <= fn_out /\ fn_out <= 7000

\* All five flags set with the close on the vwap: the sum is 10.9 and the
\* score returned is 10.
C11_Witness ==
    /\ Scored /\ fn_in.fn = "score_row"
    /\ fn_in.row.sweep_long /\ fn_in.row.sweep_short /\ fn_in.row.bull_div
    /\ fn_in.row.bear_div /\ fn_in.row.mom_pop
    /\ ScoreTotal(fn_in.row) = {10900}
    /\ fn_out = 10000

\* ------------------------------------------------------------ basis engine

BasisReturned == mode = "basis" /\ pc = "returned" /\ fn_in.fn = "compute_basis_signals"

AlignedLen == Len(align(fn_in.spot, fn_in.perp, 30).s)

\* C12: with fewer than max(50, z_win + 5) aligned bars compute_basis_signals
\* returns ok = False with no triggers and no side, and it returns ok = True
\* only with at least that many aligned bars.
C12_BasisGating ==
    BasisReturned =>
        IF AlignedLen < Max2(50, fn_in.z_win + 5)
        THEN /\ fn_out.ok = FALSE
             /\ "triggers" \notin DOMAIN fn_out
             /\ "side" \notin DOMAIN fn_out
        ELSE fn_out.ok = TRUE

\* 55 spot bars of which 54 find a perp partner, with z_win = 50: more than 50
\* aligned bars, fewer than 55, and the failure result.
C12_Witness ==
    /\ BasisReturned /\ fn_in.z_win = 50
    /\ Len(fn_in.spot) = 55 /\ AlignedLen = 54
    /\ fn_out.ok = FALSE

\* C13: when only a secondary rule fires, the result's side is SHORT for
\* 'Premium + RSI Reversal Risk' and LONG for 'Discount + RSI Reversal Risk'.
C13_SecondarySide ==
    (BasisReturned /\ fn_out.ok) =>
        /\ fn_out.triggers = << "Premium + RSI Reversal Risk" >> => fn_out.side = "SHORT"
        /\ fn_out.triggers = << "Discount + RSI Reversal Risk" >> => fn_out.side = "LONG"

AlignReturned == mode = "basis" /\ pc = "returned" /\ fn_in.fn = "align"

\* C14: a series aligned against its own copy, with any tolerance >= 0, comes
\* back whole, every bar paired with its own copy, and the basis is 0 at
\* every aligned bar.
C14_SelfAlignment ==
    (AlignReturned /\ fn_in.spot = fn_in.perp) =>
        /\ Len(fn_out.s) = Len(fn_in.spot)
        /\ Len(fn_out.p) = Len(fn_in.spot)
        /\ \A k \in 1..Len(fn_in.spot) :
               /\ fn_out.s[k] = fn_in.spot[k]
               /\ fn_out.p[k] = fn_in.perp[k]
               /\ fn_out.s[k].ts = fn_out.p[k].ts
               /\ BasisPct(fn_out.s, fn_out.p, k - 1) = 0

\* Three bars 10 s apart, closer together than the 30 s tolerance and with
\* different closes, each still paired with itself.
C14_Witness ==
    /\ AlignReturned /\ fn_in.spot = fn_in.perp /\ fn_in.tol_sec = 30
    /\ Len(fn_in.spot) = 3 /\ Len(fn_out.s) = 3
    /\ fn_in.spot[3].ts - fn_in.spot[1].ts = 20000
    /\ fn_in.spot[1].close # fn_in.spot[2].close
    /\ fn_out.p[2] = fn_in.spot[2]

\* C15: every signal a replay accepted has side LONG when sweep_long or
\* bull_div is set on its bar and SHORT otherwise, in run_symbol and in
\* backfill_symbol alike.
C15_SideInference ==
    Replaying =>
        \A k \in JustDone : \A n \in 1..Len(signals) :
            signals[n].bar = k =>
                signals[n].side = (IF RowAt(k).sweep_long \/ RowAt(k).bull_div
                                   THEN "LONG" ELSE "SHORT")

\* -------------------------------------------------------------- indicators

PivotsReturned == mode = "indicators" /\ pc = "returned" /\ fn_in.fn = "find_rsi_divergences"

\* C16: bar j is a pivot high exactly when its high exceeds the highs of bar
\* j - swing and bar j + swing, and a pivot low exactly when its low is below
\* the lows of those two bars; the first and the last swing bars are never
\* pivots and every other bar is evaluated.
C16_PivotDefinition ==
    PivotsReturned =>
        LET f == fn_in.df
            n == Len(f)
        IN  \A j \in 0..(n - 1) :
                /\ j \in fn_out.ph_idx <=>
                       /\ Swing <= j /\ j <= n - 1 - Swing
                       /\ At(f, j).high > At(f, j - Swing).high
                       /\ At(f, j).high > At(f, j + Swing).high
                /\ j \in fn_out.pl_idx <=>
                       /\ Swing <= j /\ j <= n - 1 - Swing
                       /\ At(f, j).low < At(f, j - Swing).low
                       /\ At(f, j).low < At(f, j + Swing).low

VwapReturned == mode = "indicators" /\ pc = "returned" /\ fn_in.fn = "session_vwap"

\* C17: at the first bar of each UTC day session_vwap is that bar's close
\* (up to the 1e-12 guard of the division), whatever the bars of the day
\* before and whatever the bar's volume, zero included.
C17_VwapSessionReset ==
    VwapReturned =>
        \A j \in 0..(Len(fn_in.df) - 1) :
            (j = 0 \/ Day(At(fn_in.df, j).ts) # Day(At(fn_in.df, j - 1).ts)) =>
                /\ fn_out[j + 1][2] > 0
                /\ fn_out[j + 1][1] = At(fn_in.df, j).close * fn_out[j + 1][2]

\* ------------------------------------------------------- multi-symbol runs

Batch == mode \in {"run", "worker"}

ZeroCounts ==
    IF mode = "run" THEN [signals |-> 0, executions |-> 0]
    ELSE [signals |-> 0, executions |-> 0, outcomes |-> 0]

\* The symbols whose replay raises: the fetch returned enough bars and the
\* replay of them fails.
ReplayRaises ==
    { k \in 1..Len(symbols) :
        /\ symbols[k].fetch = "ok" /\ symbols[k].replay = "raises"
        /\ ~(IF mode = "run" THEN EngineTooFew(symbols[k].bars)
             ELSE BackfillTooFew(symbols[k].bars)) }

\* C18: when the replay of one symbol raises, that symbol is skipped: the run
\* does not end with the exception, the replays of the other symbols end, and
\* the totals returned are the sums of their counts.
C18_FailureIsolation ==
    Batch =>
        /\ b_status # "raised"
        /\ b_status = "returned" =>
               /\ (1..Len(symbols)) \ ReplayRaises \subseteq b_done
               /\ result.signals = Total(b_results, "signals")
               /\ result.executions = Total(b_results, "executions")

\* The symbols whose fetch_klines raises.
FetchRaises == { k \in 1..Len(symbols) : symbols[k].fetch = "raises" }

\* C19: a symbol whose fetch_klines raised is never a symbol whose replay
\* raised: once its replay has ended it has the zero counts as its result.
\* The exception that ends a run is never the fetch's: a run that raised, or
\* was closed after raising, has a symbol whose replay of fetched bars failed.
\* A run that returned has processed every symbol, those after the failed
\* fetch included, and in a run where no replay of fetched bars fails no
\* symbol fails and none is cancelled.  This holds at every moment of a run,
\* also after _worker has left with an exception while tasks still go on.
C19_FetchFailureDegrades ==
    Batch =>
        /\ \A k \in b_done : symbols[k].fetch = "raises" => b_results[k] = ZeroCounts
        /\ b_failed \cap FetchRaises = {}
        /\ b_failed \subseteq ReplayRaises
        /\ b_status \in {"raised", "closed"} => b_failed # {}
        /\ b_status = "returned" =>
               /\ b_done = 1..Len(symbols)
               /\ result.signals = Total(b_results, "signals")
        /\ ReplayRaises = {} =>
               /\ b_status \in {"running", "returned"}
               /\ b_failed = {} /\ b_cancelled = {}
               /\ \A k \in (1..Len(symbols)) \ b_done :
                      ~replay_symbol(mode, symbols[k]).raised

\* C19 witness: the fetch of the first symbol raised, its result is the zero
\* counts, and the run went on to the two signals of the second symbol and
\* returned them.
C19_Witness ==
    /\ Batch /\ b_status = "returned"
    /\ Len(symbols) >= 2
    /\ symbols[1].fetch = "raises" /\ b_results[1] = ZeroCounts
    /\ b_results[2].signals = 2
    /\ result.signals >= 2

\* A moment after _worker left with the exception of the first symbol: the
\* task of the second symbol, whose fetch raised, still ran and ended with
\* the zero counts, and the third symbol is in progress.
WorkerGoesOnAfterRaise ==
    /\ mode = "worker" /\ b_status = "raised"
    /\ Len(symbols) = 3 /\ 1 \in b_failed
    /\ symbols[2].fetch = "raises" /\ 2 \in b_done /\ b_results[2] = ZeroCounts
    /\ b_active = {3}

\* ------------------------------------------------------- insufficient data

\* The value a replay returns when the fetch gave too few bars.
InsufficientResult ==
    IF mode = "engine" THEN [signals |-> 0, executions |-> 0]
    ELSE [signals |-> 0, executions |-> 0, outcomes |-> 0]

\* C20: the value a replay returns for a series with enough bars differs
\* from the value it returns for too few bars, also when no trigger fired.
C20_InsufficientDistinguishable ==
    (Replaying /\ pc = "done") =>
        (~(IF mode = "engine" THEN EngineTooFew(Len(df)) ELSE BackfillTooFew(Len(df)))
            => result # InsufficientResult)

\* ---------------------------------------------------- backfill outcomes

\* C21: a backfill run on at least 200 bars that emitted a signal with later
\* bars available returns an 'outcomes' count greater than zero.
C21_BackfillOutcomes ==
    (mode = "backfill" /\ pc = "done" /\ ~BackfillTooFew(Len(df))) =>
        ((\E n \in 1..Len(signals) : signals[n].bar < Len(df) - 1)
            => result.outcomes > 0)

FnReturned(fn) == mode = "functions" /\ pc = "returned" /\ fn_in.fn = fn

\* The smallest index of f whose bar time is at least ts_ms, NaN when there is none.
LowerBound(f, ts_ms) ==
    LET at_or_after == { k \in 0..(Len(f) - 1) : At(f, k).ts >= ts_ms }
    IN  IF at_or_after = {} THEN NaN
        ELSE CHOOSE k \in at_or_after : \A o \in at_or_after : k <= o

\* C22: on every ascending frame (empty and one-bar included) and every signal
\* time, the binary search and the linear scan both return the smallest index
\* whose bar time is >= the signal time, and -1 exactly when every bar is earlier.
C22_LowerBound ==
    FnReturned("_nearest_index") =>
        /\ fn_out.binary = LowerBound(fn_in.df, fn_in.ts_ms)
        /\ ~fn_out.linear.raised
        /\ fn_out.linear.index = LowerBound(fn_in.df, fn_in.ts_ms)
        /\ fn_out.binary = fn_out.linear.index
        /\ (fn_out.binary = NaN) <=>
               (\A k \in 0..(Len(fn_in.df) - 1) : At(fn_in.df, k).ts < fn_in.ts_ms)

\* The length of a bar of the interval in minutes.
IntervalMinutes(iv) ==
    IF iv = "1m" THEN 1 ELSE IF iv = "3m" THEN 3 ELSE IF iv = "5m" THEN 5
    ELSE IF iv = "15m" THEN 15 ELSE 60

\* C23: for every supported interval and every horizon, the bars walked forward
\* from the entry bar are the horizon's minutes divided by the interval's
\* minutes (at least 1), in the backtest and in the job.
C23_HorizonBars ==
    FnReturned("bars") =>
        /\ fn_out.metrics = Max2(1, fn_in.h \div IntervalMinutes(fn_in.interval))
        /\ fn_out.job = Max2(1, fn_in.h \div IntervalMinutes(fn_in.interval))

\* The sum over the first k symbols of what each one's backfill_symbol returns
\* under the key.
RECURSIVE SumOfReturned(_, _)
SumOfReturned(k, key) ==
    IF k = 0 THEN 0
    ELSE replay_symbol("worker", symbols[k]).value[key] + SumOfReturned(k - 1, key)

\* C24: in _worker at most `concurrency` replays are in progress at any moment,
\* no symbol is replayed again once started, and when the run has ended every
\* requested symbol has been replayed (its backfill_symbol ran to its end)
\* and _worker has returned, under each key, the sum of the symbols' counts,
\* whatever the order the replays ended in.
C24_BoundedParallel ==
    mode = "worker" =>
        /\ Cardinality(b_active) <= concurrency
        /\ b_active \cap (b_done \cup b_failed \cup b_cancelled) = {}
        /\ b_done \cap b_failed = {} /\ b_cancelled \cap (b_done \cup b_failed) = {}
        /\ DOMAIN b_results = b_done
        /\ b_status \in {"returned", "closed"} =>
               /\ b_active = {}
               /\ b_done \cup b_failed = 1..Len(symbols)
        /\ b_status = "returned" =>
               \A key \in {"signals", "executions", "outcomes"} :
                   result[key] = SumOfReturned(Len(symbols), key)

\* C25: the frame to_dataframe returns has no row with a non-numeric OHLCV
\* value, is in ascending ts order, and has no two rows of the same ts.
C25_ValidBarSeries ==
    FnReturned("to_dataframe") =>
        /\ \A k \in 1..Len(fn_out) :
               /\ fn_out[k].open # NaN /\ fn_out[k].high # NaN /\ fn_out[k].low # NaN
               /\ fn_out[k].close # NaN /\ fn_out[k].volume # NaN
        /\ \A k \in 1..(Len(fn_out) - 1) : fn_out[k].ts <= fn_out[k + 1].ts
        /\ \A k, m \in 1..Len(fn_out) : k # m => fn_out[k].ts # fn_out[m].ts

\* ----------------------------------------------------------- trading policy

\* The last should_trade call reached COOLDOWNS.ok.
CacheCalled == mode = "policy" /\ p_ret # << >> /\ p_ret.cached

\* min_gap_s of the key's bucket.
MinGapOf(key) ==
    IF key[1] = "event" THEN CdEventS ELSE IF key[1] = "rsi" THEN CdRsiS ELSE CdMomoS

\* What C26 says of the last call on the cache: a first call is accepted; a
\* later call is accepted only after min_gap_s since the last accepted call
\* and, on a change of side, with a score more than flip_bonus above the last
\* accepted score; a rejected call leaves the key's entry as it was.
PolicyCallRule ==
    CacheCalled =>
        /\ p_ret.prev = << >> => p_ret.ok
        /\ (p_ret.prev # << >> /\ p_ret.ok) =>
               /\ p_last[p_ret.key][1] - p_ret.prev[1][1] >= MinGapOf(p_ret.key)
               /\ p_ret.prev[1][2] # p_ret.side =>
                      p_ret.score > p_ret.prev[1][3] + FlipBonus
        /\ ~p_ret.ok => p_last[p_ret.key] = p_ret.prev[1]

\* A call changes no entry of the cache but the one of its own key.
OtherKeysUnchanged ==
    p_ret' # p_ret =>
        \A k \in DOMAIN p_last : k # p_ret'.key => (k \in DOMAIN p_last' /\ p_last'[k] = p_last[k])

\* C26: for one key of the cooldown cache the first call is accepted, a later
\* call is accepted only if min_gap_s has passed since the last accepted call
\* and, when the side differs, its score exceeds the last accepted score by
\* more than flip_bonus; a rejected call leaves the stored (time, side, score)
\* unchanged and calls on other keys never change it.
C26_PolicyCooldown == [](PolicyCallRule) /\ [][OtherKeysUnchanged]_vars

\* ------------------------------------------------- divergence in the replay

\* C27: at every replay step the last row of compute_signals(bars[0..i]) has
\* bull_div and bear_div false, so every signal of BacktestEngine.run_symbol
\* has 'Momentum Pop' as its only trigger and mom_pop true at its bar.
C27_NoDivergenceAtLastBar ==
    Replaying =>
        /\ \A k \in JustDone : ~RowAt(k).bull_div /\ ~RowAt(k).bear_div
        /\ mode = "engine" =>
               \A n \in 1..Len(signals) :
                   /\ signals[n].triggers = << "Momentum Pop" >>
                   /\ RowAt(signals[n].bar).mom_pop

\* C27 witness: the engine emitted a signal at a bar that swept the VWAP from
\* below, where a set bull_div flag would have added a second trigger.
C27_Witness ==
    /\ mode = "engine" /\ pc = "done"
    /\ Len(signals) >= 1
    /\ RowAt(signals[1].bar).sweep_long
    /\ signals[1].triggers = << "Momentum Pop" >>

\* ------------------------------------------------------ return and excursions

\* a <= b for two ratios with positive denominators.
RatioLe(a, b) == a.num * b.den <= b.num * a.den

\* C28: on well-formed bars with positive prices, for either side and any
\* horizon, _calc_window returns ret <= max_fav and -ret <= max_adv.
C28_ReturnWithinExcursions ==
    FnReturned("_calc_window") =>
        /\ RatioLe(fn_out.ret, fn_out.mfe)
        /\ RatioLe(Ratio(0 - fn_out.ret.num, fn_out.ret.den), fn_out.mae)

\* C28 witness: a SHORT over a window of three bars that ends in profit, with a
\* favourable excursion larger than the return and an adverse one on the way.
C28_Witness ==
    /\ FnReturned("_calc_window")
    /\ fn_in.side = "SHORT" /\ fn_out.i_exit = fn_in.i_entry + 2
    /\ fn_out.ret.num > 0
    /\ ~RatioLe(fn_out.mfe, fn_out.ret)
    /\ fn_out.mae.num > 0

\* --------------------------------------------------- fill and outcome entry

\* The rows compute_outcomes_from_df gives for the replay's bars and signals.
OutcomesOfReplay == compute_outcomes_from_df(df, interval, signals)

\* C29: for every signal the replay accepted at a bar that is not the last,
\* the entry_price of each of its outcome rows, computed on the same bars, is
\* the price of the paper execution emitted for it: the open of the next bar.
C29_FillMatchesEntry ==
    (Replaying /\ pc = "done") =>
        \A n \in 1..Len(signals) :
            signals[n].bar < Len(df) - 1 =>
                /\ \E e \in 1..Len(executions) :
                       /\ executions[e].sig = signals[n].id
                       /\ executions[e].price = At(df, signals[n].bar + 1).open
                       /\ \A r \in 1..Len(OutcomesOfReplay) :
                              OutcomesOfReplay[r].signal_id = signals[n].id =>
                                  OutcomesOfReplay[r].entry_price = executions[e].price
                /\ \A h \in 1..Len(HorizonsMetrics) :
                       \E r \in 1..Len(OutcomesOfReplay) :
                           /\ OutcomesOfReplay[r].signal_id = signals[n].id
                           /\ OutcomesOfReplay[r].horizon_m = HorizonsMetrics[h]

\* C29 witness: a signal accepted at a bar whose open differs from the open of
\* the bar after it, filled at that next open.
C29_Witness ==
    /\ Replaying /\ pc = "done"
    /\ \E n \in 1..Len(signals) :
           /\ signals[n].bar < Len(df) - 1
           /\ At(df, signals[n].bar).open # At(df, signals[n].bar + 1).open
           /\ \E e \in 1..Len(executions) :
                  /\ executions[e].sig = signals[n].id
                  /\ executions[e].price = At(df, signals[n].bar + 1).open

\* ------------------------------------------------------- the cooldown timer

\* The timer of the replay's key is 0 or the time of the last accepted signal.
TimerIsLastSignal ==
    Replaying =>
        GetAlert(last_alert, ReplayKey) =
            IF signals = << >> THEN 0 ELSE signals[Len(signals)].ts

\* A step that accepts no signal leaves every timer as it was, and no step
\* changes the timer of a key other than the replay's.
TimerFrame ==
    Replaying =>
        /\ signals' = signals => last_alert' = last_alert
        /\ \A k \in DOMAIN last_alert :
               k # ReplayKey => (k \in DOMAIN last_alert' /\ last_alert'[k] = last_alert[k])

\* C30: a rejected replay step leaves the last-accepted timestamp of its
\* (venue, symbol) key unchanged, an acceptance changes only the timer of its
\* own key, and the timer is always its initial value or the bar time of the
\* most recently accepted signal of that key.
C30_RejectionsKeepTimer == [](TimerIsLastSignal) /\ [][TimerFrame]_vars

\* C30 witness: an engine replay accepted a signal, rejected every later bar,
\* and ended with the other symbol's timer still in the dict.
C30_Witness ==
    /\ mode = "engine" /\ pc = "done"
    /\ Len(signals) >= 1
    /\ signals[Len(signals)].bar < Len(df) - 1
    /\ last_alert[ReplayKey] = signals[Len(signals)].ts
    /\ last_alert[OtherKey] = OtherAlert

====
